---- MODULE Spec2Model ----
(***************************************************************************)
(* Model of the BBO tick cache (cache/bbo_cache.py), its lifecycle manager *)
(* (cache/cache_manager.py) and the throttling broadcast dispatcher        *)
(* (web/message_queue.py).                                                 *)
(*                                                                         *)
(* A Python dict is a function whose DOMAIN is the set of keys present.    *)
(* Every `with self._lock:` block is one atomic action; code between two   *)
(* blocks that touches only the caller's own record is folded into the     *)
(* preceding step.  Times are integers in milliseconds.                    *)
(***************************************************************************)
EXTENDS Integers, Sequences, FiniteSets, TLC

VARIABLES
    cache,        \* the BBOCache object: its fields, and the files of cache_dir
    running,      \* CacheManager.running
    cleaners,     \* number of live "cache-cleanup-thread" threads
    stop_pc,      \* position of a caller inside CacheManager.stop
    pc,           \* pc[p]: position of producer p inside process_bbo_update
    cur,          \* cur[p]: the record producer p is admitting
    seen,         \* seen[p]: was cur[p]'s (symbol, eventTime) stored when the call began
    now,          \* wall clock, current_time_ms()
    lastOp,       \* the operation that made the last step, with its arguments
    result,       \* the value returned by the last query
    message_queue,      \* MessageQueueProcessor.message_queue, head first
    unfinished_tasks,   \* message_queue.unfinished_tasks
    is_running,         \* MessageQueueProcessor.is_running
    last_message_time,  \* MessageQueueProcessor.last_message_time
    throttled_message,  \* MessageQueueProcessor.throttled_message
    latest_data,        \* MessageQueueProcessor.latest_data
    dpc,                \* position of the dispatch thread in _process_message_queue
    batch,              \* messages_to_process of the current cycle
    process_time,       \* process_time of the current cycle
    enqueued,           \* number of broadcast_message calls so far
    sends,              \* every socketio.emit so far: event, payload and time
    processed_message_queue,  \* MessageProcessor.processed_message_queue, head first
    lock_owner,         \* the thread holding BBOCache._lock, or "none"
    ppc,                \* ppc[w]: position of thread w inside _persist_cache
    checked,            \* cleanup threads past the flag test of their iteration
    epc,                \* position of the thread inside clear_old_data
    client              \* the BinanceWebSocketClient object and its connect calls

\* state that only the thread-level actions of the later sections change
procVars == <<processed_message_queue, lock_owner, ppc, checked, epc, client>>
cacheVars == <<cache, running, cleaners, stop_pc, pc, cur, seen, lastOp, result>>
dispOnly == <<message_queue, unfinished_tasks, is_running, last_message_time,
              throttled_message, latest_data, dpc, batch, process_time, enqueued, sends>>
dispVars == <<dispOnly, procVars>>
vars == <<cache, running, cleaners, stop_pc, pc, cur, seen, now, lastOp, result,
          message_queue, unfinished_tasks, is_running, last_message_time,
          throttled_message, latest_data, dpc, batch, process_time, enqueued, sends,
          processed_message_queue, lock_owner, ppc, checked, epc, client>>

----------------------------------------------------------------------------
(* Bounds of the model *)

MaxItems == 2          \* max_items_per_symbol given to the constructor
MaxInserts == 3        \* the insert counter is explored up to this value
MaxDrift == 1          \* how far the clock is explored past a starting point
MaxCleaners == 2       \* live cleanup threads explored
StartTime == 86400002  \* wall clock when the process starts

(* Program constants *)

persistence_interval == 300000
PersistTail == 10000
CleanupEvery == 10000
RetentionMs == 86400000
CleanupIntervalMs == 21600000

NoneVal == 0 - 1000000      \* Python None, where a number is expected

Symbols == {"BTCUSDT", "ETHUSDT"}
Producers == {"p1", "p2"}

----------------------------------------------------------------------------
(* Records *)

Has(r, k) == k \in DOMAIN r

Put(f, k, v) == [x \in (DOMAIN f) \cup {k} |-> IF x = k THEN v ELSE f[x]]

GetD(f, k) == IF k \in DOMAIN f THEN f[k] ELSE <<>>

CamelFields == ("bidPrice" :> "1.0") @@ ("bidQty" :> "0.5")
                 @@ ("askPrice" :> "1.1") @@ ("askQty" :> "0.7")

\* the record of test_cache.generate_sample_bbo_updates
TestShape(s, t, lat) ==
    ("symbol" :> s) @@ ("timestamp" :> t) @@ ("backendLatency" :> lat) @@ CamelFields

\* a record that carries no 'timestamp', only the exchange's event time
ExchangeShape(s, e) ==
    ("symbol" :> s) @@ ("exchange_time" :> e) @@ CamelFields

\* a record that carries neither: add_update falls back to the wall clock
BareShape(s) == ("symbol" :> s) @@ CamelFields

Inputs ==
    {TestShape("BTCUSDT", t, 50 + t) : t \in 0..3}
      \cup {TestShape("ETHUSDT", 1, 60)}
      \cup {ExchangeShape("BTCUSDT", 2), BareShape("ETHUSDT")}

EmptyMap == [x \in {} |-> <<>>]

\* a value that is not a dict (a string, a list): it carries this one mark
NonDict == ("__nondict__" :> "text")

\* isinstance(r, dict)
IsDict(r) == ~Has(r, "__nondict__")

----------------------------------------------------------------------------
(* bisect, as the standard library computes it (0-based insertion points) *)

RECURSIVE bisect_left_loop(_, _, _, _)
bisect_left_loop(a, x, lo, hi) ==
    IF lo < hi
    THEN LET mid == (lo + hi) \div 2
         IN IF a[mid + 1] < x THEN bisect_left_loop(a, x, mid + 1, hi)
                              ELSE bisect_left_loop(a, x, lo, mid)
    ELSE lo

bisect_left(a, x) == bisect_left_loop(a, x, 0, Len(a))

RECURSIVE bisect_right_loop(_, _, _, _)
bisect_right_loop(a, x, lo, hi) ==
    IF lo < hi
    THEN LET mid == (lo + hi) \div 2
         IN IF x < a[mid + 1] THEN bisect_right_loop(a, x, lo, mid)
                              ELSE bisect_right_loop(a, x, mid + 1, hi)
    ELSE lo

\* a bisect_right that stops before the elements equal to x
bisect_right_excl(a, x) == bisect_left(a, x)

bisect_right(a, x) == bisect_right_loop(a, x, 0, Len(a))

\* list.insert(idx, v), 0-based
ListInsert(a, idx, v) == SubSeq(a, 1, idx) \o <<v>> \o SubSeq(a, idx + 1, Len(a))

\* a[idx:], 0-based
DropFirst(a, idx) == SubSeq(a, idx + 1, Len(a))

\* a[-n:]
LastN(a, n) == IF n = 0 \/ n >= Len(a) THEN a ELSE SubSeq(a, Len(a) - n + 1, Len(a))

----------------------------------------------------------------------------
(* JSON text of a record: the set of its members *)

JsonDump(r) == {<<k, r[k]>> : k \in DOMAIN r}

JsonLoad(o) == [k \in {m[1] : m \in o} |-> (CHOOSE m \in o : m[1] = k)[2]]

JsonDumpList(a) == [i \in 1..Len(a) |-> JsonDump(a[i])]

JsonLoadList(a) == [i \in 1..Len(a) |-> JsonLoad(a[i])]

----------------------------------------------------------------------------
(* BBOCache *)

NewCache(persist) ==
    [updates |-> EmptyMap, timestamps |-> EmptyMap, latency_stats |-> EmptyMap,
     max_items |-> MaxItems, persist_to_disk |-> persist,
     insert_count |-> 0, last_persistence_time |-> 0,
     files |-> EmptyMap]

\* add_update: the timestamp fallback chain
ResolveTimestamp(r, t) ==
    IF Has(r, "timestamp") THEN r
    ELSE IF Has(r, "exchange_time") THEN Put(r, "timestamp", r.exchange_time)
    ELSE IF Has(r, "received_timestamp") THEN Put(r, "timestamp", r.received_timestamp)
    ELSE Put(r, "timestamp", t)

SnakeToCamel(r, snake, camel) ==
    IF Has(r, snake) /\ ~Has(r, camel) THEN Put(r, camel, r[snake]) ELSE r

NormalizeFields(r) ==
    SnakeToCamel(SnakeToCamel(SnakeToCamel(SnakeToCamel(r,
        "bid_price", "bidPrice"), "bid_qty", "bidQty"),
        "ask_price", "askPrice"), "ask_qty", "askQty")

RequiredFields == {"bidPrice", "bidQty", "askPrice", "askQty"}

\* the record as add_update has rewritten it when it reaches the locked blocks
Prepare(r, t) == NormalizeFields(ResolveTimestamp(r, t))

\* add_update returns early, storing nothing
\* an add_update that checks only for the symbol
Rejected_symbol_only(r) == ~IsDict(r) \/ ~Has(r, "symbol")

Rejected(r) ==
    ~IsDict(r) \/ ~Has(r, "symbol") \/ ~(RequiredFields \subseteq DOMAIN NormalizeFields(r))

HasLatency(r) ==
    Has(r, "backendLatency") \/ (Has(r, "latency") /\ r.latency # NoneVal)

LatencyOf(r) == IF Has(r, "backendLatency") THEN r.backendLatency ELSE r.latency

\* add_update, first locked block: the latency sample
LatencyBlock(c, r) ==
    IF ~HasLatency(r) THEN c
    ELSE LET s == r.symbol
             appended == Append(GetD(c.latency_stats, s), <<r.timestamp, LatencyOf(r)>>)
             trimmed == IF Len(appended) > c.max_items THEN Tail(appended) ELSE appended
         IN [c EXCEPT !.latency_stats = Put(c.latency_stats, s, trimmed)]

\* an insert that appends whatever the timestamp
_insert_update_append(c, symbol, timestamp, bbo_update) ==
    LET u0 == GetD(c.updates, symbol)
        t0 == GetD(c.timestamps, symbol)
        full == Len(u0) >= c.max_items
    IN [c EXCEPT
          !.updates = Put(c.updates, symbol, Append(IF full THEN Tail(u0) ELSE u0, bbo_update)),
          !.timestamps = Put(c.timestamps, symbol, Append(IF full THEN Tail(t0) ELSE t0, timestamp))]

\* an insert that never evicts at capacity
_insert_update_noevict(c, symbol, timestamp, bbo_update) ==
    LET u1 == GetD(c.updates, symbol)
        t1 == GetD(c.timestamps, symbol)
        atEnd == t1 = <<>> \/ timestamp >= t1[Len(t1)]
        idx == bisect_left(t1, timestamp)
        u2 == IF atEnd THEN Append(u1, bbo_update) ELSE ListInsert(u1, idx, bbo_update)
        t2 == IF atEnd THEN Append(t1, timestamp) ELSE ListInsert(t1, idx, timestamp)
    IN [c EXCEPT !.updates = Put(c.updates, symbol, u2),
                 !.timestamps = Put(c.timestamps, symbol, t2)]

\* an insert whose capacity eviction pops the series and leaves the timestamp index
_insert_update_lopsided(c, symbol, timestamp, bbo_update) ==
    LET u0 == GetD(c.updates, symbol)
        t1 == GetD(c.timestamps, symbol)
        full == Len(u0) >= c.max_items
        u1 == IF full THEN Tail(u0) ELSE u0
        atEnd == t1 = <<>> \/ timestamp >= t1[Len(t1)]
        idx == bisect_left(t1, timestamp)
        u2 == IF atEnd \/ idx >= Len(u1) THEN Append(u1, bbo_update)
              ELSE ListInsert(u1, idx, bbo_update)
        t2 == IF atEnd THEN Append(t1, timestamp) ELSE ListInsert(t1, idx, timestamp)
    IN [c EXCEPT !.updates = Put(c.updates, symbol, u2),
                 !.timestamps = Put(c.timestamps, symbol, t2)]

_insert_update(c, symbol, timestamp, bbo_update) ==
    LET u0 == GetD(c.updates, symbol)
        t0 == GetD(c.timestamps, symbol)
        full == Len(u0) >= c.max_items
        u1 == IF full THEN Tail(u0) ELSE u0
        t1 == IF full THEN Tail(t0) ELSE t0
        atEnd == t1 = <<>> \/ timestamp >= t1[Len(t1)]
        idx == bisect_left(t1, timestamp)
        u2 == IF atEnd THEN Append(u1, bbo_update) ELSE ListInsert(u1, idx, bbo_update)
        t2 == IF atEnd THEN Append(t1, timestamp) ELSE ListInsert(t1, idx, timestamp)
    IN [c EXCEPT !.updates = Put(c.updates, symbol, u2),
                 !.timestamps = Put(c.timestamps, symbol, t2)]

_persist_cache(c, t) ==
    IF ~c.persist_to_disk THEN c
    ELSE LET written == {s \in DOMAIN c.updates : c.updates[s] # <<>>}
         IN [c EXCEPT
               !.files = [s \in (DOMAIN c.files) \cup written |->
                            IF s \in written
                            THEN JsonDumpList(LastN(c.updates[s], PersistTail))
                            ELSE c.files[s]],
               !.last_persistence_time = t]

\* an insert block that does not count
InsertBlock_uncounted(c, r, t) ==
    LET c1 == _insert_update(c, r.symbol, r.timestamp, r)
    IN IF c1.persist_to_disk /\ t - c1.last_persistence_time > persistence_interval
       THEN _persist_cache(c1, t)
       ELSE c1

\* add_update, second locked block: insert, count, periodic persistence
InsertBlock(c, r, t) ==
    LET c1 == _insert_update(c, r.symbol, r.timestamp, r)
        c2 == [c1 EXCEPT !.insert_count = c1.insert_count + 1]
    IN IF c2.persist_to_disk /\ t - c2.last_persistence_time > persistence_interval
       THEN _persist_cache(c2, t)
       ELSE c2

\* add_update run to completion by one thread
add_update(c, r, t) ==
    IF Rejected(r) THEN c
    ELSE InsertBlock(LatencyBlock(c, Prepare(r, t)), Prepare(r, t), t)

get_updates(c, symbol, start_time, end_time, limit) ==
    IF symbol \notin DOMAIN c.updates THEN <<>>
    ELSE IF start_time = NoneVal /\ end_time = NoneVal
    THEN IF limit = NoneVal THEN c.updates[symbol] ELSE LastN(c.updates[symbol], limit)
    ELSE LET ts == GetD(c.timestamps, symbol)
             start_idx == IF start_time # NoneVal THEN bisect_left(ts, start_time) ELSE 0
             end_idx == IF end_time # NoneVal THEN bisect_right(ts, end_time) ELSE Len(ts)
             slice == SubSeq(c.updates[symbol], start_idx + 1, end_idx)
         IN IF limit # NoneVal /\ Len(slice) > limit THEN LastN(slice, limit) ELSE slice

RECURSIVE KeepFrom(_, _)
\* [(ts, lat) for ts, lat in samples if ts >= cutoff]
KeepFrom(samples, cutoff) ==
    IF samples = <<>> THEN <<>>
    ELSE IF Head(samples)[1] >= cutoff
         THEN <<Head(samples)>> \o KeepFrom(Tail(samples), cutoff)
         ELSE KeepFrom(Tail(samples), cutoff)

\* an eviction that also drops the records at the cutoff itself
ClearSymbol_incl(c, s, cutoff_time) ==
    LET ts == GetD(c.timestamps, s)
        idx == bisect_right(ts, cutoff_time)
    IN IF ts = <<>> \/ idx = 0 THEN c
       ELSE [c EXCEPT
               !.updates = Put(c.updates, s, DropFirst(c.updates[s], idx)),
               !.timestamps = Put(c.timestamps, s, DropFirst(ts, idx))]

\* clear_old_data, for one symbol of the loop
ClearSymbol(c, s, cutoff_time) ==
    LET ts == GetD(c.timestamps, s)
        idx == bisect_left(ts, cutoff_time)
    IN IF ts = <<>> \/ idx = 0 THEN c
       ELSE [c EXCEPT
               !.updates = Put(c.updates, s, DropFirst(c.updates[s], idx)),
               !.timestamps = Put(c.timestamps, s, DropFirst(ts, idx)),
               !.latency_stats =
                   IF s \in DOMAIN c.latency_stats
                   THEN Put(c.latency_stats, s, KeepFrom(c.latency_stats[s], cutoff_time))
                   ELSE c.latency_stats]

RECURSIVE ClearSymbols(_, _, _)
ClearSymbols(c, todo, cutoff_time) ==
    IF todo = {} THEN c
    ELSE LET s == CHOOSE x \in todo : TRUE
         IN ClearSymbols(ClearSymbol(c, s, cutoff_time), todo \ {s}, cutoff_time)

clear_old_data(c, t, max_age_ms) == ClearSymbols(c, DOMAIN c.updates, t - max_age_ms)

\* file names in the order files.sort(reverse=True) gives them, newest file per symbol
SymbolOrder == <<"ETHUSDT", "BTCUSDT">>

RECURSIVE LoadRecords(_, _, _)
LoadRecords(c, data, t) ==
    IF data = <<>> THEN c
    ELSE LET update == Head(data)
             c1 == IF Has(update, "symbol") /\ Has(update, "timestamp")
                   THEN add_update(c, update, t) ELSE c
         IN LoadRecords(c1, Tail(data), t)

RECURSIVE LoadFiles(_, _, _, _)
LoadFiles(c, files, k, t) ==
    IF k > Len(SymbolOrder) THEN c
    ELSE LET s == SymbolOrder[k]
             c1 == IF s \in DOMAIN files
                   THEN LoadRecords(c, JsonLoadList(files[s]), t) ELSE c
         IN LoadFiles(c1, files, k + 1, t)

load_from_disk(c, t) ==
    IF ~c.persist_to_disk THEN c ELSE LoadFiles(c, c.files, 1, t)

----------------------------------------------------------------------------
(* CacheManager *)

contains_update(c, bbo_update) ==
    IF ~IsDict(bbo_update) \/ ~Has(bbo_update, "symbol") \/ ~Has(bbo_update, "timestamp") THEN FALSE
    ELSE LET symbol == bbo_update.symbol
             timestamp == bbo_update.timestamp
         IN IF symbol = "" \/ timestamp = NoneVal \/ timestamp = 0 THEN FALSE
            ELSE IF symbol \notin DOMAIN c.timestamps THEN FALSE
            ELSE LET timestamps == c.timestamps[symbol]
                     idx == bisect_left(timestamps, timestamp)
                 IN timestamps # <<>> /\ idx < Len(timestamps)
                      /\ timestamps[idx + 1] = timestamp

\* start(), past its `if self.running` return: the replay of the persisted files
StartLoad(c, t) == load_from_disk(c, t)

----------------------------------------------------------------------------
(* History: what the last step was, and what a call saw when it began *)

Op(o, s, a, b) == [op |-> o, sym |-> s, a |-> a, b |-> b]

NoRecord == EmptyMap

TsOf(series) == [i \in 1..Len(series) |-> series[i].timestamp]

Stored(c, s, t) ==
    s \in DOMAIN c.updates /\ \E i \in 1..Len(c.updates[s]) : c.updates[s][i].timestamp = t

RECURSIVE SumLen(_, _)
SumLen(f, todo) ==
    IF todo = {} THEN 0
    ELSE LET s == CHOOSE x \in todo : TRUE IN Len(f[s]) + SumLen(f, todo \ {s})

\* get_cache_stats()["total_updates"]
Stored_count(c) == SumLen(c.updates, DOMAIN c.updates)

----------------------------------------------------------------------------
(* The broadcast dispatcher, web/message_queue.py *)

MaxMsgs == 3           \* broadcast_message calls explored
MaxClock == 150        \* how long the dispatcher's clock is explored, in ms
ClockStep == 50        \* granularity of that clock, in ms
MaxDeep == 53          \* broadcast_message calls explored when the queue is let grow

throttle_interval == 100
batch_size == 5
WarnDepth == 50
MaxReasonableLatency == 10000

NoneMsg == [none |-> TRUE]      \* Python None, where a payload is expected

\* event time of the n-th record handed to the dispatcher
EventTime(n) == StartTime - MaxMsgs + n

\* the dict message_processor.py puts on its queue and forwards to broadcast_message;
\* prices and quantities are the strings of the exchange's JSON
SnakeMsg(s, e, rcv) ==
    [tuple |-> FALSE, event |-> "",
     data |-> ("symbol" :> s) @@ ("bid_price" :> "1.0") @@ ("bid_qty" :> "0.5")
              @@ ("ask_price" :> "1.1") @@ ("ask_qty" :> "0.7")
              @@ ("exchange_time" :> e) @@ ("received_timestamp" :> rcv)
              @@ ("latency" :> rcv - e) @@ CamelFields @@ ("timestamp" :> e)]

\* a raw bookTicker message of the exchange
RawMsg(s, e) ==
    [tuple |-> FALSE, event |-> "",
     data |-> ("s" :> s) @@ ("b" :> "1.0") @@ ("B" :> "0.5")
              @@ ("a" :> "1.1") @@ ("A" :> "0.7") @@ ("E" :> e)]

\* the ('bbo_update', update_data) tuple BBOProcessor enqueues
TupleMsg(s, e, rcv) ==
    [tuple |-> TRUE, event |-> "bbo_update",
     data |-> ("symbol" :> s) @@ ("timestamp" :> e) @@ CamelFields
              @@ ("latency" :> [backend |-> rcv - e, exchangeTime |-> e, receivedTime |-> rcv])
              @@ ("backendLatency" :> rcv - e)
              @@ ("bid_price" :> "1.0") @@ ("bid_qty" :> "0.5")
              @@ ("ask_price" :> "1.1") @@ ("ask_qty" :> "0.7")
              @@ ("exchange_time" :> e) @@ ("received_timestamp" :> rcv)]

Shapes == {"snake", "raw", "tuple"}

MakeMsg(shape, n, rcv) ==
    CASE shape = "snake" -> SnakeMsg("BTCUSDT", EventTime(n), rcv)
      [] shape = "raw"   -> RawMsg("BTCUSDT", EventTime(n))
      [] shape = "tuple" -> TupleMsg("BTCUSDT", EventTime(n), rcv)

\* dict.get(k, default)
Get(d, k, default) == IF Has(d, k) THEN d[k] ELSE default

\* received_time - exchange_time, kept only below ten seconds
CalcLatency(d, ekey, pt) ==
    LET calculated_latency == Get(d, "received_timestamp", pt) - d[ekey]
    IN IF calculated_latency < MaxReasonableLatency THEN calculated_latency ELSE NoneVal

\* _process_message_queue: the client form of a dict in the processor's own format
FormatSnake(d, pt) ==
    LET backendLatency ==
            IF Get(d, "latency", NoneVal) # NoneVal THEN d["latency"]
            ELSE IF Get(d, "exchange_time", NoneVal) # NoneVal
                 THEN CalcLatency(d, "exchange_time", pt)
                 ELSE NoneVal
    IN ("symbol" :> Get(d, "symbol", "UNKNOWN"))
       @@ ("bidPrice" :> Get(d, "bid_price", "0.00"))
       @@ ("bidQty" :> Get(d, "bid_qty", "0.0000"))
       @@ ("askPrice" :> Get(d, "ask_price", "0.00"))
       @@ ("askQty" :> Get(d, "ask_qty", "0.0000"))
       @@ ("timestamp" :> Get(d, "exchange_time", pt))
       @@ ("serverTimestamp" :> pt)
       @@ ("backendLatency" :> backendLatency)

\* _process_message_queue: the client form of a raw exchange message
FormatRaw(d, pt) ==
    LET backendLatency ==
            IF Get(d, "E", NoneVal) # NoneVal THEN CalcLatency(d, "E", pt) ELSE NoneVal
    IN ("symbol" :> Get(d, "s", "UNKNOWN"))
       @@ ("bidPrice" :> Get(d, "b", "0.00"))
       @@ ("bidQty" :> Get(d, "B", "0.0000"))
       @@ ("askPrice" :> Get(d, "a", "0.00"))
       @@ ("askQty" :> Get(d, "A", "0.0000"))
       @@ ("timestamp" :> Get(d, "E", pt))
       @@ ("serverTimestamp" :> pt)
       @@ ("backendLatency" :> backendLatency)

\* formatted_data of a dict message, its 'timestamp' never None
Format(d, pt) ==
    LET f == IF Has(d, "bid_price") /\ Has(d, "ask_price")
             THEN FormatSnake(d, pt) ELSE FormatRaw(d, pt)
    IN IF f["timestamp"] = NoneVal THEN [f EXCEPT !["timestamp"] = pt] ELSE f

----------------------------------------------------------------------------
(* Actions of the cache and its manager *)

MaxAges == {RetentionMs, RetentionMs + 1}
QueryRanges == {<<NoneVal, NoneVal>>, <<1, 2>>}
BigSteps == {persistence_interval + 1, CleanupIntervalMs + 1}
MaxJumps == 1

\* the threads that can run _persist_cache: the producers inside add_update and
\* the caller of CacheManager.stop
Persisters == Producers \cup {"stop"}

\* a thread outside _persist_cache
NotPersisting == [stage |-> "idle", size |-> 0, todo |-> {}, symbol |-> "", recent_data |-> <<>>]

\* no thread inside clear_old_data
NotEvicting == [stage |-> "idle", todo |-> {}, symbol |-> "", cutoff_time |-> 0]

\* config.INITIAL_BACKOFF, in seconds
INITIAL_BACKOFF == 1

\* config.EXTENDED_BACKOFF_THRESHOLD, in attempts
EXTENDED_BACKOFF_THRESHOLD == 3

\* the max_retries a client is constructed with
MaxRetries == 4

\* the connect calls followed
MaxConnects == 12

\* BinanceWebSocketClient.__init__; websocket is TRUE for a socket object and
\* FALSE for None; connects counts the calls of connect so far
NewClient(auto_reconnect) ==
    [auto_reconnect |-> auto_reconnect, max_retries |-> MaxRetries,
     websocket |-> FALSE, retry_count |-> 0, backoff_time |-> INITIAL_BACKOFF,
     connection_active |-> FALSE, hpc |-> "none", connects |-> 0]

InitBoth(caches, clients) ==
    /\ cache \in caches
    /\ running = FALSE
    /\ cleaners = 0
    /\ stop_pc = "idle"
    /\ pc = [p \in Producers |-> "idle"]
    /\ cur = [p \in Producers |-> NoRecord]
    /\ seen = [p \in Producers |-> "no"]
    /\ now = StartTime
    /\ lastOp = Op("init", "", 0, 0)
    /\ result = <<>>
    /\ message_queue = <<>>
    /\ unfinished_tasks = 0
    /\ is_running = FALSE
    /\ last_message_time = 0
    /\ throttled_message = NoneMsg
    /\ latest_data = EmptyMap
    /\ dpc = "none"
    /\ batch = <<>>
    /\ process_time = 0
    /\ enqueued = 0
    /\ sends = <<>>
    /\ processed_message_queue = <<>>
    /\ lock_owner = "none"
    /\ ppc = [w \in Persisters |-> NotPersisting]
    /\ checked = 0
    /\ epc = NotEvicting
    /\ client \in clients

InitFrom(caches) == InitBoth(caches, {NewClient(TRUE)})

InitWith(persists) == InitFrom({NewCache(persist) : persist \in persists})

\* CacheManager.start
Start ==
    /\ ~running
    /\ cleaners < MaxCleaners
    /\ cache.insert_count < MaxInserts
    /\ running' = TRUE
    /\ cache' = StartLoad(cache, now)
    /\ cleaners' = cleaners + 1
    /\ lastOp' = Op("start", "", 0, 0)
    /\ result' = <<>>
    /\ UNCHANGED <<stop_pc, pc, cur, seen, now>>
    /\ UNCHANGED dispVars

\* CacheManager.stop up to the final flush
StopFlush ==
    /\ running
    /\ stop_pc = "idle"
    /\ running' = FALSE
    /\ cache' = _persist_cache(cache, now)
    /\ stop_pc' = "join"
    /\ lastOp' = Op("stop", "", 0, 0)
    /\ result' = <<>>
    /\ UNCHANGED <<cleaners, pc, cur, seen, now>>
    /\ UNCHANGED dispVars

\* CacheManager.stop: cleanup_thread.join(timeout=2.0) returns
StopJoin ==
    /\ stop_pc = "join"
    /\ stop_pc' = "idle"
    /\ lastOp' = Op("stopped", "", 0, 0)
    /\ result' = <<>>
    /\ UNCHANGED <<cache, running, cleaners, pc, cur, seen, now>>
    /\ UNCHANGED dispVars

\* one iteration of _cleanup_task that finds the manager running
CleanupIter ==
    /\ cleaners > 0
    /\ running
    /\ LET due == (cache.insert_count % CleanupEvery = 0)
                    \/ (now - cache.last_persistence_time > CleanupIntervalMs)
       IN /\ cache' = IF due THEN clear_old_data(cache, now, RetentionMs) ELSE cache
          /\ lastOp' = Op(IF due THEN "cleanup" ELSE "cleanup_idle", "", now - RetentionMs, 0)
    /\ result' = <<>>
    /\ UNCHANGED <<running, cleaners, stop_pc, pc, cur, seen, now>>
    /\ UNCHANGED dispVars

\* _cleanup_task sees the flag cleared and returns
CleanupExit ==
    /\ cleaners > 0
    /\ ~running
    /\ cleaners' = cleaners - 1
    /\ lastOp' = Op("cleanup_exit", "", 0, 0)
    /\ result' = <<>>
    /\ UNCHANGED <<cache, running, stop_pc, pc, cur, seen, now>>
    /\ UNCHANGED dispVars

\* BBOCache.clear_old_data(max_age_ms)
ClearOldData(max_age_ms) ==
    /\ cache' = clear_old_data(cache, now, max_age_ms)
    /\ lastOp' = Op("clear_old_data", "", now - max_age_ms,
                    Stored_count(cache) - Stored_count(clear_old_data(cache, now, max_age_ms)))
    /\ result' = <<>>
    /\ UNCHANGED <<running, cleaners, stop_pc, pc, cur, seen, now>>
    /\ UNCHANGED dispVars

\* process_bbo_update without the `return` after a duplicate is found
AdmitCheck_fallthrough(p, r) ==
    /\ pc[p] = "idle"
    /\ cache.insert_count < MaxInserts
    /\ running \/ cleaners < MaxCleaners
    /\ LET c0 == IF running THEN cache ELSE StartLoad(cache, now)
           dup == contains_update(c0, r)
           go == ~Rejected(r)
           r1 == IF go THEN Prepare(r, now) ELSE NoRecord
       IN /\ running' = TRUE
          /\ cleaners' = IF running THEN cleaners ELSE cleaners + 1
          /\ cache' = c0
          /\ cur' = [cur EXCEPT ![p] = r1]
          /\ pc' = [pc EXCEPT ![p] =
                      IF ~go THEN "idle" ELSE IF HasLatency(r1) THEN "latency" ELSE "insert"]
          /\ seen' = [seen EXCEPT ![p] =
                        IF go /\ Stored(c0, r1.symbol, r1.timestamp)
                        THEN (IF Has(r, "timestamp") THEN "explicit"
                              ELSE IF Has(r, "exchange_time") THEN "exchange"
                              ELSE "fallback")
                        ELSE "no"]
          /\ lastOp' = Op(IF dup THEN "duplicate" ELSE IF go THEN "admit" ELSE "rejected",
                          IF Has(r, "symbol") THEN r.symbol ELSE "",
                          IF go THEN r1.timestamp ELSE 0, 0)
    /\ result' = <<>>
    /\ UNCHANGED <<stop_pc, now>>
    /\ UNCHANGED dispVars

\* process_bbo_update up to the call of add_update's locked blocks:
\* start if stopped, the dedup check, then add_update's checks on its own record
AdmitCheck(p, r) ==
    /\ pc[p] = "idle"
    /\ cache.insert_count < MaxInserts
    /\ running \/ cleaners < MaxCleaners
    /\ LET c0 == IF running THEN cache ELSE StartLoad(cache, now)
           dup == contains_update(c0, r)
           go == ~dup /\ ~Rejected(r)
           r1 == IF go THEN Prepare(r, now) ELSE NoRecord
       IN /\ running' = TRUE
          /\ cleaners' = IF running THEN cleaners ELSE cleaners + 1
          /\ cache' = c0
          /\ cur' = [cur EXCEPT ![p] = r1]
          /\ pc' = [pc EXCEPT ![p] =
                      IF ~go THEN "idle" ELSE IF HasLatency(r1) THEN "latency" ELSE "insert"]
          /\ seen' = [seen EXCEPT ![p] =
                        IF go /\ Stored(c0, r1.symbol, r1.timestamp)
                        THEN (IF Has(r, "timestamp") THEN "explicit"
                              ELSE IF Has(r, "exchange_time") THEN "exchange"
                              ELSE "fallback")
                        ELSE "no"]
          /\ lastOp' = Op(IF dup THEN "duplicate" ELSE IF go THEN "admit" ELSE "rejected",
                          IF Has(r, "symbol") THEN r.symbol ELSE "",
                          IF go THEN r1.timestamp ELSE 0, 0)
    /\ result' = <<>>
    /\ UNCHANGED <<stop_pc, now>>
    /\ UNCHANGED dispVars

\* add_update: the locked block that appends the latency sample
AddLatency(p) ==
    /\ pc[p] = "latency"
    /\ cache' = LatencyBlock(cache, cur[p])
    /\ pc' = [pc EXCEPT ![p] = "insert"]
    /\ lastOp' = Op("add_latency", cur[p].symbol, cur[p].timestamp, 0)
    /\ result' = <<>>
    /\ UNCHANGED <<running, cleaners, stop_pc, cur, seen, now>>
    /\ UNCHANGED dispVars

\* add_update: the locked block that inserts, counts and may persist
AddInsert(p) ==
    /\ pc[p] = "insert"
    /\ cache' = InsertBlock(cache, cur[p], now)
    /\ pc' = [pc EXCEPT ![p] = "idle"]
    /\ cur' = [cur EXCEPT ![p] = NoRecord]
    /\ seen' = [seen EXCEPT ![p] = "no"]
    /\ lastOp' = Op("add_update", cur[p].symbol, cur[p].timestamp, 0)
    /\ result' = <<>>
    /\ UNCHANGED <<running, cleaners, stop_pc, now>>
    /\ UNCHANGED dispVars

\* BBOCache.get_updates(symbol, start_time, end_time)
Query(s, range) ==
    /\ result' = get_updates(cache, s, range[1], range[2], NoneVal)
    /\ lastOp' = Op("get_updates", s, range[1], range[2])
    /\ UNCHANGED <<cache, running, cleaners, stop_pc, pc, cur, seen, now>>
    /\ UNCHANGED dispVars

\* how many steps of the clock led to time t
Jumps(t) ==
    ((t - StartTime) \div (CleanupIntervalMs + 1))
      + (((t - StartTime) % (CleanupIntervalMs + 1)) \div (persistence_interval + 1))

\* the wall clock moves on by a long interval
Jump(d) ==
    /\ Jumps(now) < MaxJumps
    /\ now' = now + d
    /\ lastOp' = Op("tick", "", 0, 0)
    /\ result' = <<>>
    /\ UNCHANGED <<cache, running, cleaners, stop_pc, pc, cur, seen>>
    /\ UNCHANGED dispVars

\* the wall clock moves on by a millisecond
Tick ==
    /\ (now - StartTime) % (persistence_interval + 1) < MaxDrift
    /\ now' = now + 1
    /\ lastOp' = Op("tick", "", 0, 0)
    /\ result' = <<>>
    /\ UNCHANGED <<cache, running, cleaners, stop_pc, pc, cur, seen>>
    /\ UNCHANGED dispVars

----------------------------------------------------------------------------
(* The data path: one producer admits records into a cache that does not    *)
(* persist (the constructor's default); the manager is started by the first *)
(* admission and its cleanup thread runs.                                   *)

Init == InitWith({FALSE})

Next ==
    \/ CleanupIter
    \/ \E a \in MaxAges : ClearOldData(a)
    \/ \E r \in Inputs : AdmitCheck("p1", r)
    \/ AddLatency("p1")
    \/ AddInsert("p1")
    \/ \E s \in Symbols, range \in QueryRanges : Query(s, range)
    \/ Tick

Spec == Init /\ [][Next]_vars

----------------------------------------------------------------------------
(* Properties of the data path *)

IsSorted(a) == \A i \in 1..(Len(a) - 1) : a[i] <= a[i + 1]

InRange(t, start_time, end_time) ==
    (start_time = NoneVal \/ t >= start_time) /\ (end_time = NoneVal \/ t <= end_time)

Matching(series, start_time, end_time) ==
    SelectSeq(series, LAMBDA r : InRange(r.timestamp, start_time, end_time))

StoredTimes(c, s) == {GetD(c.updates, s)[i].timestamp : i \in 1..Len(GetD(c.updates, s))}

NoDupTs(c) ==
    \A s \in DOMAIN c.updates : Cardinality(StoredTimes(c, s)) = Len(c.updates[s])

RECURSIVE SortedSeq(_)
\* the elements of a finite set of integers, ascending
SortedSeq(S) ==
    IF S = {} THEN <<>>
    ELSE LET m == CHOOSE x \in S : \A y \in S : x <= y
         IN <<m>> \o SortedSeq(S \ {m})

\* some producer completes add_update in this step
Inserting(p) == pc[p] = "insert" /\ pc'[p] = "idle"

\* C1: for every symbol, in every reachable state, get_updates(symbol) with no bounds
\* returns the stored records in non-decreasing 'timestamp' order.
C1_QueryOrdered ==
    \A s \in Symbols : IsSorted(TsOf(get_updates(cache, s, NoneVal, NoneVal, NoneVal)))

\* an out-of-order arrival has just been inserted before a later record
C1_Witness ==
    /\ lastOp.op = "add_update"
    /\ LET u == get_updates(cache, lastOp.sym, NoneVal, NoneVal, NoneVal)
       IN Len(u) >= 2 /\ lastOp.a < u[Len(u)].timestamp

\* C2: a process_bbo_update call whose record carries a (symbol, timestamp) that is
\* already stored when the call begins is a no-op: it never reaches the insert, so the
\* cache is the one the first call left.
C2_DuplicateIsNoOp ==
    [][\A p \in Producers : (Inserting(p) /\ seen[p] = "explicit") => cache' = cache]_vars

\* C3: an insert of a record whose timestamp differs from all stored ones leaves the
\* min(C, n + 1) records with the largest timestamps of the n stored and the new one.
C3_KeepsLargest ==
    [][\A p \in Producers :
         LET s == cur[p].symbol
             old == StoredTimes(cache, s)
             all == old \cup {cur[p].timestamp}
         IN (Inserting(p) /\ NoDupTs(cache) /\ cur[p].timestamp \notin old)
              => TsOf(cache'.updates[s]) = LastN(SortedSeq(all), cache.max_items)]_vars

C10_ResolvedBeforeDedup ==
    [][\A p \in Producers : (Inserting(p) /\ seen[p] = "exchange") => cache' = cache]_vars

----------------------------------------------------------------------------
(* The lifecycle: a manager that persists is started, stopped and started   *)
(* again while a producer admits records and the cleanup threads run.       *)

LifeInputs ==
    {TestShape("BTCUSDT", 1, 51), TestShape("BTCUSDT", 2, 52), TestShape("ETHUSDT", 1, 60)}

InitLife == InitWith({TRUE})

NextLife ==
    \/ Start
    \/ StopFlush
    \/ StopJoin
    \/ CleanupIter
    \/ CleanupExit
    \/ \E r \in LifeInputs : AdmitCheck("p1", r)
    \/ AddLatency("p1")
    \/ AddInsert("p1")
    \/ \E d \in BigSteps : Jump(d)

SpecLife == InitLife /\ [][NextLife]_vars

\* C9: a step that starts the manager, replaying the persisted files, never leaves a
\* series with two records of the same timestamp when there was none before.
C9_ReplayDedups ==
    [][(~running /\ running' /\ NoDupTs(cache)) => NoDupTs(cache')]_vars

----------------------------------------------------------------------------
(* Concurrent producers: two threads call process_bbo_update on one manager. *)
(* Each locked block of the call is one step; the blocks of the two calls    *)
(* interleave freely.                                                        *)

ConcInputs == {TestShape("BTCUSDT", 1, 51), TestShape("BTCUSDT", 2, 52)}

InitConc == InitWith({FALSE})

NextConc ==
    \/ \E p \in Producers, r \in ConcInputs : AdmitCheck(p, r)
    \/ \E p \in Producers : AddLatency(p)
    \/ \E p \in Producers : AddInsert(p)
    \/ CleanupIter
    \/ Tick

SpecConc == InitConc /\ [][NextConc]_vars

\* C6: with two producers admitting records of the same symbol, no (symbol, timestamp)
\* pair is ever stored twice: the dedup check and the insert act as one critical section.
C6_CheckInsertAtomic ==
    \A s \in Symbols, r \in ConcInputs :
        Cardinality({i \in 1..Len(GetD(cache.updates, s)) :
                        GetD(cache.updates, s)[i].timestamp = r["timestamp"]}) <= 1

----------------------------------------------------------------------------
(* The dispatch thread.  st is the part of the processor's state one cycle   *)
(* works on: latest_data, last_message_time, throttled_message,              *)
(* unfinished_tasks, sends, and raised once an exception has been thrown.    *)

Emit(st, event, payload, t) ==
    [st EXCEPT !.sends = Append(@, [event |-> event, payload |-> payload, at |-> t])]

\* Queue.task_done: ValueError when called more often than put
task_done(st) ==
    IF st.unfinished_tasks <= 0 THEN [st EXCEPT !.raised = TRUE]
    ELSE [st EXCEPT !.unfinished_tasks = @ - 1]

RECURSIVE task_done_times(_, _)
task_done_times(st, n) ==
    IF n = 0 \/ st.raised THEN st ELSE task_done_times(task_done(st), n - 1)

\* the body of `for message in messages_to_process`
HandleMessage(st, m, n, pt, current_time, time_since_last_message) ==
    IF m.tuple
    THEN IF m.event = "bbo_update"
         THEN task_done_times(
                  Emit([st EXCEPT !.latest_data = m.data], m.event, m.data, current_time), n)
         ELSE task_done(st)
    ELSE LET formatted_data == Format(m.data, pt)
             st1 == [st EXCEPT !.latest_data = formatted_data]
             st2 == IF time_since_last_message >= throttle_interval
                    THEN [Emit(st1, "bbo_update", formatted_data, current_time)
                             EXCEPT !.last_message_time = current_time,
                                    !.throttled_message = NoneMsg]
                    ELSE [st1 EXCEPT !.throttled_message = formatted_data]
         IN task_done(st2)

RECURSIVE HandleBatch(_, _, _, _, _)
HandleBatch(st, msgs, n, pt, current_time) ==
    IF msgs = <<>> \/ st.raised THEN st
    ELSE HandleBatch(
             HandleMessage(st, Head(msgs), n, pt, current_time,
                           current_time - last_message_time),
             Tail(msgs), n, pt, current_time)

\* the except block: task_done once per drained message, errors ignored
HandlerTaskDone(u, n) == IF u >= n THEN u - n ELSE 0

cacheSide == <<cache, running, cleaners, stop_pc, pc, cur, seen, lastOp, result, procVars>>

\* a broadcast_message that rejects the record when the queue is above the threshold
broadcast_message_reject(shape) ==
    /\ message_queue' = IF Len(message_queue) > WarnDepth THEN message_queue
                        ELSE Append(message_queue, MakeMsg(shape, enqueued + 1, now))
    /\ unfinished_tasks' = IF Len(message_queue) > WarnDepth THEN unfinished_tasks
                           ELSE unfinished_tasks + 1
    /\ enqueued' = enqueued + 1
    /\ UNCHANGED <<is_running, last_message_time, throttled_message, latest_data,
                   dpc, batch, process_time, sends, now>>
    /\ UNCHANGED cacheSide

\* MessageQueueProcessor.broadcast_message: qsize() above the threshold only logs a
\* warning; put() on the unbounded queue appends and counts the task
broadcast_message(shape) ==
    /\ message_queue' = Append(message_queue, MakeMsg(shape, enqueued + 1, now))
    /\ unfinished_tasks' = unfinished_tasks + 1
    /\ enqueued' = enqueued + 1
    /\ UNCHANGED <<is_running, last_message_time, throttled_message, latest_data,
                   dpc, batch, process_time, sends, now>>
    /\ UNCHANGED cacheSide

\* a producer calls broadcast_message
Enqueue(shape) ==
    /\ enqueued < MaxMsgs
    /\ broadcast_message(shape)

\* a producer calls broadcast_message, explored to a deep queue
EnqueueDeep(shape) ==
    /\ enqueued < MaxDeep
    /\ broadcast_message(shape)

\* MessageQueueProcessor.start
DispStart ==
    /\ ~is_running
    /\ is_running' = TRUE
    /\ dpc' = "loop"
    /\ batch' = <<>>
    /\ UNCHANGED <<message_queue, unfinished_tasks, last_message_time, throttled_message,
                   latest_data, process_time, enqueued, sends, now>>
    /\ UNCHANGED cacheSide

\* MessageQueueProcessor.stop: the thread is killed wherever it is
DispStop ==
    /\ is_running
    /\ is_running' = FALSE
    /\ dpc' = "none"
    /\ batch' = <<>>
    /\ UNCHANGED <<message_queue, unfinished_tasks, last_message_time, throttled_message,
                   latest_data, process_time, enqueued, sends, now>>
    /\ UNCHANGED cacheSide

\* `while self.is_running:` and the first statements of the cycle
LoopHead ==
    /\ dpc = "loop"
    /\ is_running
    /\ batch' = <<>>
    /\ process_time' = now
    /\ dpc' = "get"
    /\ UNCHANGED <<message_queue, unfinished_tasks, is_running, last_message_time,
                   throttled_message, latest_data, enqueued, sends, now>>
    /\ UNCHANGED cacheSide

\* get(timeout=0.5) returns a message; up to batch_size - 1 more are taken
GetBatch ==
    /\ dpc = "get"
    /\ message_queue # <<>>
    /\ LET k == IF Len(message_queue) < batch_size THEN Len(message_queue) ELSE batch_size
       IN /\ batch' = SubSeq(message_queue, 1, k)
          /\ message_queue' = SubSeq(message_queue, k + 1, Len(message_queue))
    /\ dpc' = "batch"
    /\ UNCHANGED <<unfinished_tasks, is_running, last_message_time, throttled_message,
                   latest_data, process_time, enqueued, sends, now>>
    /\ UNCHANGED cacheSide

\* get(timeout=0.5) raises Empty: `continue`
GetEmpty ==
    /\ dpc = "get"
    /\ message_queue = <<>>
    /\ dpc' = "loop"
    /\ UNCHANGED <<message_queue, unfinished_tasks, is_running, last_message_time,
                   throttled_message, latest_data, batch, process_time, enqueued, sends, now>>
    /\ UNCHANGED cacheSide

\* the for loop over the batch, and the except block if it raised
ProcessBatch ==
    /\ dpc = "batch"
    /\ LET st0 == [latest_data |-> latest_data, last_message_time |-> last_message_time,
                   throttled_message |-> throttled_message,
                   unfinished_tasks |-> unfinished_tasks, sends |-> sends, raised |-> FALSE]
           st == HandleBatch(st0, batch, Len(batch), process_time, now)
       IN /\ latest_data' = st.latest_data
          /\ last_message_time' = st.last_message_time
          /\ throttled_message' = st.throttled_message
          /\ sends' = st.sends
          /\ unfinished_tasks' = IF st.raised
                                 THEN HandlerTaskDone(st.unfinished_tasks, Len(batch))
                                 ELSE st.unfinished_tasks
          /\ dpc' = IF st.raised THEN "loop" ELSE "flush"
    /\ UNCHANGED <<message_queue, is_running, batch, process_time, enqueued, now>>
    /\ UNCHANGED cacheSide

\* after the batch: send the throttled message if the interval has elapsed
Flush ==
    /\ dpc = "flush"
    /\ IF throttled_message # NoneMsg /\ now - last_message_time >= throttle_interval
       THEN /\ last_message_time' = now
            /\ sends' = Append(sends, [event |-> "bbo_update",
                                       payload |-> throttled_message, at |-> now])
            /\ throttled_message' = NoneMsg
       ELSE UNCHANGED <<last_message_time, sends, throttled_message>>
    /\ dpc' = "loop"
    /\ UNCHANGED <<message_queue, unfinished_tasks, is_running, latest_data, batch,
                   process_time, enqueued, now>>
    /\ UNCHANGED cacheSide

\* time passes
TickDisp ==
    /\ now + ClockStep <= StartTime + MaxClock
    /\ now' = now + ClockStep
    /\ UNCHANGED <<message_queue, unfinished_tasks, is_running, last_message_time,
                   throttled_message, latest_data, dpc, batch, process_time, enqueued, sends>>
    /\ UNCHANGED cacheSide

DispatchStep == LoopHead \/ GetBatch \/ GetEmpty \/ ProcessBatch \/ Flush

InitDisp == InitWith({FALSE})

NextDisp ==
    \/ \E shape \in Shapes : Enqueue(shape)
    \/ DispStart
    \/ DispStop
    \/ LoopHead
    \/ GetBatch
    \/ GetEmpty
    \/ ProcessBatch
    \/ Flush
    \/ TickDisp

SpecDisp == InitDisp /\ [][NextDisp]_vars

\* C4: any two consecutive sends to the sink are at least throttle_interval apart.
C4_SendsThrottled ==
    \A i \in 1..(Len(sends) - 1) : sends[i + 1].at - sends[i].at >= throttle_interval

(* The dispatcher left running: it is started and never stopped, its thread  *)
(* is scheduled fairly and the clock advances.                               *)

NextDispRun ==
    \/ \E shape \in Shapes : Enqueue(shape)
    \/ DispStart
    \/ LoopHead
    \/ GetBatch
    \/ GetEmpty
    \/ ProcessBatch
    \/ Flush
    \/ TickDisp

FairSpecDisp ==
    InitDisp /\ [][NextDispRun]_vars /\ WF_vars(DispatchStep) /\ WF_vars(TickDisp)
             /\ WF_vars(DispStart)

\* C5: a throttled message whose interval has elapsed is eventually sent (the pending
\* slot is emptied by a send), whether or not anything further is enqueued.
C5_ThrottledEventuallySent ==
    (is_running /\ throttled_message # NoneMsg
        /\ now - last_message_time >= throttle_interval)
      ~> (throttled_message = NoneMsg)

----------------------------------------------------------------------------
(* The REST handler BBOHistoryAPI.get_updates (cache/rest_api.py).           *)
(* get_updates returns list(deque): a new list whose elements are the dicts  *)
(* held by the series, so what the handler writes into an element is written *)
(* into the stored record.                                                   *)

DefaultWindowMs == 3600000
DefaultLimit == 10000000

\* the 1-based positions, first and last, of the records get_updates returns
get_updates_span(c, symbol, start_time, end_time, limit) ==
    IF symbol \notin DOMAIN c.updates THEN <<1, 0>>
    ELSE LET n == Len(c.updates[symbol])
             ts == GetD(c.timestamps, symbol)
             unbounded == start_time = NoneVal /\ end_time = NoneVal
             start_idx == IF ~unbounded /\ start_time # NoneVal
                          THEN bisect_left(ts, start_time) ELSE 0
             end_idx == IF ~unbounded /\ end_time # NoneVal
                        THEN bisect_right(ts, end_time) ELSE n
             len == IF end_idx > start_idx THEN end_idx - start_idx ELSE 0
             cut == IF unbounded
                    THEN limit # NoneVal /\ limit # 0 /\ limit < len
                    ELSE limit # NoneVal /\ len > limit /\ limit # 0
         IN IF len = 0 THEN <<1, 0>>
            ELSE IF cut THEN <<end_idx - limit + 1, end_idx>>
            ELSE <<start_idx + 1, end_idx>>

\* datetime.fromtimestamp(ts / 1000).strftime('%Y%m%d %H:%M:%S.%f')[:-3]:
\* the second of the instant and its millisecond
FormatTimestamp(ts) == <<ts \div 1000, ts % 1000>>

\* `for update in updates: update['timestamp_formatted'] = ...`
MarkFormatted(series, span) ==
    [i \in 1..Len(series) |->
        IF span[1] <= i /\ i <= span[2] /\ Has(series[i], "timestamp")
        THEN Put(series[i], "timestamp_formatted", FormatTimestamp(series[i]["timestamp"]))
        ELSE series[i]]

ApiParams ==
    {[start |-> a, end |-> b, limit |-> l] :
        a \in {NoneVal, 0, 2}, b \in {NoneVal, 2}, l \in {NoneVal, 1}}

\* BBOHistoryAPI.get_updates for ?symbol=s and the optional parameters q
ApiGetUpdates(s, q) ==
    LET start_time == IF q.start # NoneVal THEN q.start ELSE now - DefaultWindowMs
        limit == IF q.limit # NoneVal THEN q.limit ELSE DefaultLimit
        span == get_updates_span(cache, s, start_time, q.end, limit)
        cache1 == IF s \in DOMAIN cache.updates
                  THEN [cache EXCEPT !.updates[s] = MarkFormatted(@, span)]
                  ELSE cache
    IN /\ cache' = cache1
       /\ result' = get_updates(cache1, s, start_time, q.end, limit)
       /\ lastOp' = Op("api_get_updates", s, start_time, q.end)
       /\ UNCHANGED <<running, cleaners, stop_pc, pc, cur, seen, now>>
       /\ UNCHANGED dispVars

Limits == {0, 1}

\* BBOCache.get_updates(symbol, start_time, end_time, limit)
QueryLimited(s, range, limit) ==
    /\ result' = get_updates(cache, s, range[1], range[2], limit)
    /\ lastOp' = Op("get_updates_limit", s, limit, 0)
    /\ UNCHANGED <<cache, running, cleaners, stop_pc, pc, cur, seen, now>>
    /\ UNCHANGED dispVars

ApiInputs ==
    {TestShape("BTCUSDT", t, 50 + t) : t \in 1..3} \cup {TestShape("ETHUSDT", StartTime, 60)}

InitApi == InitWith({FALSE})

NextApi ==
    \/ \E r \in ApiInputs : AdmitCheck("p1", r)
    \/ AddLatency("p1")
    \/ AddInsert("p1")
    \/ \E s \in Symbols, q \in ApiParams : ApiGetUpdates(s, q)
    \/ \E s \in Symbols, range \in QueryRanges : Query(s, range)
    \/ \E s \in Symbols, range \in QueryRanges, limit \in Limits : QueryLimited(s, range, limit)
    \/ Tick

SpecApi == InitApi /\ [][NextApi]_vars

\* the span names exactly the records get_updates returns
SpanAgrees ==
    \A s \in Symbols, q \in ApiParams :
        LET span == get_updates_span(cache, s, q.start, q.end, q.limit)
        IN get_updates(cache, s, q.start, q.end, q.limit)
             = SubSeq(GetD(cache.updates, s), span[1], span[2])

\* C11: a stored record is never changed by a caller of a query: no record of any
\* series carries a field that was written into a query result.
C11_StoredImmutable ==
    \A s \in DOMAIN cache.updates :
        \A i \in 1..Len(cache.updates[s]) : ~Has(cache.updates[s][i], "timestamp_formatted")

----------------------------------------------------------------------------
(* Properties of the dispatcher *)

\* what the dispatcher hands to the sink for message m
BroadcastForm(m, pt) == IF m.tuple THEN m.data ELSE Format(m.data, pt)

\* the dispatch thread finishes the for loop over its batch in this step
BatchHandled == dpc = "batch" /\ dpc' \in {"flush", "loop"}

\* C12: when the dispatch loop has handled a batch, latest_data is the broadcast form
\* of the last record of that batch.
C12_LatestIsLastDrained ==
    [][BatchHandled =>
          latest_data' = BroadcastForm(batch[Len(batch)], process_time)]_vars

(* A stalled or slow consumer: one producer keeps enqueueing while the       *)
(* dispatch thread, started at some point, drains at its own pace.           *)

NextDeep ==
    \/ EnqueueDeep("snake")
    \/ DispStart
    \/ LoopHead
    \/ GetBatch
    \/ GetEmpty
    \/ ProcessBatch
    \/ Flush

SpecDeep == InitDisp /\ [][NextDeep]_vars

\* C13: every broadcast_message call appends exactly one record at the tail of the
\* queue and changes nothing else of the processor, and a call is possible at every
\* queue depth, whether or not the dispatch loop is running.
C13_EnqueueAppends ==
    /\ [][enqueued' # enqueued =>
            /\ enqueued' = enqueued + 1
            /\ Len(message_queue') = Len(message_queue) + 1
            /\ SubSeq(message_queue', 1, Len(message_queue)) = message_queue
            /\ UNCHANGED <<is_running, dpc, batch, latest_data, throttled_message, sends>>]_vars
    /\ [](enqueued < MaxDeep => ENABLED EnqueueDeep("snake"))

\* a record has been enqueued on a queue already above the warning threshold while
\* the dispatch loop was running
C13_Witness ==
    /\ Len(message_queue) > WarnDepth + 1
    /\ is_running

----------------------------------------------------------------------------
(* Further properties of the cache *)

\* C14: every series and every latency tracker holds at most max_items entries.
C14_WithinCapacity ==
    \A s \in Symbols :
        /\ Len(GetD(cache.updates, s)) <= cache.max_items
        /\ Len(GetD(cache.latency_stats, s)) <= cache.max_items

\* a start has replayed a file of max_items records into a series, which is full
C14_Witness ==
    /\ lastOp.op = "start"
    /\ cache.insert_count >= 2 * cache.max_items
    /\ \E s \in DOMAIN cache.files :
          /\ Len(JsonLoadList(cache.files[s])) = cache.max_items
          /\ Len(GetD(cache.updates, s)) = cache.max_items
          /\ Len(GetD(cache.latency_stats, s)) = cache.max_items

----------------------------------------------------------------------------
(* Ingestion: the records the two stream processors hand to                  *)
(* process_bbo_update, and malformed input.                                  *)

\* received_timestamp - exchange_time of the ticks explored: a clock behind the
\* exchange's, an ordinary delay, and delays at and above ten seconds
Delays == {0 - 1, 5, MaxReasonableLatency, MaxReasonableLatency + 1}

\* MessageProcessor._process_bbo_update: the dict sent to the cache
ProcessorRecord(s, e, rcv) == SnakeMsg(s, e, rcv).data

\* BBOProcessor.process_bbo_update: the dict sent to the cache
BBOProcessorRecord(s, e, rcv) == TupleMsg(s, e, rcv).data

\* BBOProcessor.process_bbo_update returns before building the record
BBOProcessorSkips(e, rcv) == rcv - e > MaxReasonableLatency

\* a dict without 'symbol'
NoSymbolRecord == ("timestamp" :> 5) @@ ("backendLatency" :> 7) @@ CamelFields

\* a dict of a symbol no well-formed record has, its ask quantity missing under
\* either name
MissingFieldRecord ==
    ("symbol" :> "XRPUSDT") @@ ("timestamp" :> 5) @@ ("backendLatency" :> 7)
      @@ ("bid_price" :> "1.0") @@ ("bid_qty" :> "0.5") @@ ("askPrice" :> "1.1")

Malformed == {NonDict, NoSymbolRecord, MissingFieldRecord}

InitIngest == InitWith({FALSE})

NextIngest ==
    \/ \E d \in Delays : AdmitCheck("p1", ProcessorRecord("BTCUSDT", now - d, now))
    \/ \E d \in Delays : /\ ~BBOProcessorSkips(now - d, now)
                         /\ AdmitCheck("p1", BBOProcessorRecord("ETHUSDT", now - d, now))
    \/ \E r \in Malformed : AdmitCheck("p1", r)
    \/ AddLatency("p1")
    \/ AddInsert("p1")
    \/ CleanupIter
    \/ Tick

SpecIngest == InitIngest /\ [][NextIngest]_vars

\* C16: a malformed record is dropped without effect: the call that rejects it leaves
\* the cache as it was and returns, and no series, timestamp index or latency tracker
\* ever exists for the symbol that only malformed records carry.
C16_MalformedDropped ==
    /\ [][lastOp'.op = "rejected" => cache' = cache /\ pc' = pc]_vars
    /\ [](/\ "XRPUSDT" \notin DOMAIN cache.updates
          /\ "XRPUSDT" \notin DOMAIN cache.timestamps
          /\ "XRPUSDT" \notin DOMAIN cache.latency_stats)

\* a malformed record has just been rejected by a cache that holds records
C16_Witness ==
    /\ lastOp.op = "rejected"
    /\ lastOp.sym = "XRPUSDT"
    /\ cache.insert_count >= 1

\* C17: every sample of every latency tracker is at least 0 and below ten seconds.
C17_LatencyInRange ==
    \A s \in DOMAIN cache.latency_stats :
        \A i \in 1..Len(cache.latency_stats[s]) :
            /\ 0 <= cache.latency_stats[s][i][2]
            /\ cache.latency_stats[s][i][2] < MaxReasonableLatency

\* C18: a query with a limit returns at most that many records.
C18_AtMostLimit ==
    lastOp.op = "get_updates_limit" => Len(result) <= lastOp.a

----------------------------------------------------------------------------
(* Latency statistics, BBOCache.get_latency_stats.  Averages and percentiles *)
(* are exact rationals: avg is the pair <<sum, count>> and a percentile is   *)
(* given in hundredths.                                                      *)

StatsCapacity == 4     \* max_items_per_symbol of the cache the statistics are taken from
MaxSamples == 5        \* add_update calls explored on that cache

ZeroStats ==
    [avg |-> <<0, 1>>, min |-> 0, max |-> 0, p50 |-> 0, p95 |-> 0, p99 |-> 0, count |-> 0]

RECURSIVE FilterSamples(_, _, _)
\* the latencies of the samples with start_time <= ts <= end_time, in stored order
FilterSamples(samples, start_time, end_time) ==
    IF samples = <<>> THEN <<>>
    ELSE LET ts == Head(samples)[1]
             rest == FilterSamples(Tail(samples), start_time, end_time)
         IN IF (start_time = NoneVal \/ ts >= start_time) /\ (end_time = NoneVal \/ ts <= end_time)
            THEN <<Head(samples)[2]>> \o rest
            ELSE rest

\* a percentile taken without sorting the samples
SortSamples_none(a) == a

RECURSIVE SortSamples(_)
\* np.percentile orders the samples first
SortSamples(a) ==
    IF a = <<>> THEN <<>>
    ELSE LET rest == SortSamples(Tail(a))
         IN ListInsert(rest, bisect_right(rest, Head(a)), Head(a))

RECURSIVE SumSeq(_)
SumSeq(a) == IF a = <<>> THEN 0 ELSE Head(a) + SumSeq(Tail(a))

RECURSIVE MinSeq(_)
MinSeq(a) ==
    IF Len(a) = 1 THEN a[1]
    ELSE LET m == MinSeq(Tail(a)) IN IF Head(a) < m THEN Head(a) ELSE m

RECURSIVE MaxSeq(_)
MaxSeq(a) ==
    IF Len(a) = 1 THEN a[1]
    ELSE LET m == MaxSeq(Tail(a)) IN IF Head(a) > m THEN Head(a) ELSE m

\* np.percentile(a, q), linear interpolation at index (n - 1) * q / 100, in hundredths
percentile(a, q) ==
    LET sorted == SortSamples(a)
        n == Len(sorted)
        h == (n - 1) * q
        lo == h \div 100
        hi == IF lo + 1 < n THEN lo + 1 ELSE n - 1
    IN 100 * sorted[lo + 1] + (h - 100 * lo) * (sorted[hi + 1] - sorted[lo + 1])

get_latency_stats(c, symbol, start_time, end_time) ==
    IF symbol \notin DOMAIN c.latency_stats THEN ZeroStats
    ELSE LET latency_samples == FilterSamples(c.latency_stats[symbol], start_time, end_time)
         IN IF latency_samples = <<>> THEN ZeroStats
            ELSE [avg |-> <<SumSeq(latency_samples), Len(latency_samples)>>,
                  min |-> MinSeq(latency_samples),
                  max |-> MaxSeq(latency_samples),
                  p50 |-> percentile(latency_samples, 50),
                  p95 |-> percentile(latency_samples, 95),
                  p99 |-> percentile(latency_samples, 99),
                  count |-> Len(latency_samples)]

\* get_symbol_list (as a set)
get_symbol_list(c) == DOMAIN c.updates

\* the maps after `self._updates[symbol]` on an absent key: the defaultdicts create it
after_lookup_getitem(c, symbol) ==
    [c EXCEPT !.updates = IF symbol \in DOMAIN @ THEN @ ELSE Put(@, symbol, <<>>),
              !.timestamps = IF symbol \in DOMAIN @ THEN @ ELSE Put(@, symbol, <<>>),
              !.latency_stats = IF symbol \in DOMAIN @ THEN @ ELSE Put(@, symbol, <<>>)]

\* the maps after `symbol not in self._updates`: a membership test creates no key
after_lookup(c, symbol) == c

Latencies == {0, 7, 40}
StatsRanges == {<<NoneVal, NoneVal>>, <<2, 4>>, <<NoneVal, 3>>, <<9, 9>>}

\* BBOCache.add_update called directly, as test_cache.py does, with the next timestamp
AddSample(lat) ==
    /\ cache.insert_count < MaxSamples
    /\ cache' = add_update(cache, TestShape("BTCUSDT", cache.insert_count + 1, lat), now)
    /\ lastOp' = Op("add_update", "BTCUSDT", cache.insert_count + 1, 0)
    /\ result' = <<>>
    /\ UNCHANGED <<running, cleaners, stop_pc, pc, cur, seen, now>>
    /\ UNCHANGED dispVars

\* BBOCache.get_latency_stats(symbol, start_time, end_time)
LatencyStats(s, range) ==
    /\ result' = get_latency_stats(cache, s, range[1], range[2])
    /\ cache' = after_lookup(cache, s)
    /\ lastOp' = Op("get_latency_stats", s, range[1], range[2])
    /\ UNCHANGED <<running, cleaners, stop_pc, pc, cur, seen, now>>
    /\ UNCHANGED dispVars

\* BBOCache.get_updates(symbol, start_time, end_time)
GetUpdates(s, range) ==
    /\ result' = get_updates(cache, s, range[1], range[2], NoneVal)
    /\ cache' = after_lookup(cache, s)
    /\ lastOp' = Op("get_updates", s, range[1], range[2])
    /\ UNCHANGED <<running, cleaners, stop_pc, pc, cur, seen, now>>
    /\ UNCHANGED dispVars

InitStats == InitFrom({[NewCache(FALSE) EXCEPT !.max_items = StatsCapacity]})

NextStats ==
    \/ \E lat \in Latencies : AddSample(lat)
    \/ \E s \in Symbols, range \in StatsRanges : LatencyStats(s, range)
    \/ \E s \in Symbols, range \in StatsRanges : GetUpdates(s, range)

SpecStats == InitStats /\ [][NextStats]_vars

\* the step is a query for a symbol the cache has never seen
UnknownQuery ==
    /\ lastOp'.op \in {"get_updates", "get_latency_stats"}
    /\ lastOp'.sym \notin get_symbol_list(cache)
    /\ lastOp'.sym \notin DOMAIN cache.timestamps
    /\ lastOp'.sym \notin DOMAIN cache.latency_stats

\* C19: a query on an unknown symbol returns the empty sequence (get_updates) or the
\* all-zero record (get_latency_stats) and leaves the symbol absent from the symbol
\* list and from the series, timestamp and latency maps; nothing else changes either.
C19_UnknownSymbolQuery ==
    [][UnknownQuery =>
          /\ result' = IF lastOp'.op = "get_updates" THEN <<>> ELSE ZeroStats
          /\ lastOp'.sym \notin get_symbol_list(cache')
          /\ lastOp'.sym \notin DOMAIN cache'.timestamps
          /\ lastOp'.sym \notin DOMAIN cache'.latency_stats
          /\ cache' = cache]_vars

\* get_latency_stats has just been asked about a symbol unknown to a cache that
\* holds another symbol
C19_Witness ==
    /\ lastOp.op = "get_latency_stats"
    /\ lastOp.sym \notin DOMAIN cache.updates
    /\ lastOp.sym \notin DOMAIN cache.latency_stats
    /\ DOMAIN cache.updates # {}
    /\ result = ZeroStats

\* the number of stored samples of symbol s inside the inclusive bounds
InBounds(s, start_time, end_time) ==
    Cardinality({i \in 1..Len(GetD(cache.latency_stats, s)) :
        LET ts == cache.latency_stats[s][i][1]
        IN (start_time = NoneVal \/ ts >= start_time) /\ (end_time = NoneVal \/ ts <= end_time)})

\* C20: when some sample falls in the bounds, get_latency_stats counts exactly those
\* samples and returns min <= p50 <= p95 <= p99 <= max with avg between min and max.
C20_PercentileSanity ==
    (lastOp.op = "get_latency_stats" /\ InBounds(lastOp.sym, lastOp.a, lastOp.b) > 0) =>
        /\ result.count = InBounds(lastOp.sym, lastOp.a, lastOp.b)
        /\ 100 * result.min <= result.p50
        /\ result.p50 <= result.p95
        /\ result.p95 <= result.p99
        /\ result.p99 <= 100 * result.max
        /\ result.min * result.avg[2] <= result.avg[1]
        /\ result.avg[1] <= result.max * result.avg[2]

\* statistics over three samples in the bounds, stored out of latency order, of a
\* tracker that has been trimmed at capacity
C20_Witness ==
    /\ lastOp.op = "get_latency_stats"
    /\ lastOp.a = 2
    /\ result.count = 3
    /\ result.min < result.max
    /\ 100 * result.min < result.p50
    /\ result.p95 < result.p99
    /\ cache.insert_count > cache.max_items
    /\ cache.latency_stats[lastOp.sym][1][2] > cache.latency_stats[lastOp.sym][2][2]

----------------------------------------------------------------------------
(* Eviction and the latency trackers *)

\* the step is a clear_old_data call, made while no admission is in progress
ClearStep ==
    /\ lastOp'.op \in {"clear_old_data", "cleanup"}
    /\ \A p \in Producers : pc[p] = "idle"

\* C21: when clear_old_data returns, no latency tracker holds a sample older than
\* the cutoff now - max_age_ms.
C21_LatencyEvicted ==
    [][ClearStep =>
          \A s \in DOMAIN cache'.latency_stats :
              \A i \in 1..Len(cache'.latency_stats[s]) :
                  cache'.latency_stats[s][i][1] >= lastOp'.a]_vars

\* C22: every latency tracker is ordered by timestamp.
C22_LatencyOrdered ==
    \A s \in DOMAIN cache.latency_stats :
        \A i \in 1..(Len(cache.latency_stats[s]) - 1) :
            cache.latency_stats[s][i][1] <= cache.latency_stats[s][i + 1][1]

----------------------------------------------------------------------------
(* The stream processor: MessageProcessor._process_bbo_update hands each     *)
(* tick to the cache and puts it on processed_message_queue, and             *)
(* _dispatch_messages forwards the queue to the dispatcher's message_queue.  *)
(* Both run on one event loop; the put on the unbounded queue does not       *)
(* yield, so a call of _process_bbo_update is one step.                      *)

\* CacheManager.process_bbo_update run to completion: the cache it leaves
process_bbo_update(c, is_running_now, bbo_update, t) ==
    LET c0 == IF is_running_now THEN c ELSE StartLoad(c, t)
    IN IF contains_update(c0, bbo_update) THEN c0 ELSE add_update(c0, bbo_update, t)

\* exchange-to-receipt delays of the ticks the stream processor is given
ForwardDelays == {0, 5}

\* MessageProcessor._process_bbo_update for a tick of symbol s received d ms after
\* its event time
ProcessBboUpdate(s, d) ==
    /\ cache.insert_count < MaxInserts
    /\ Len(processed_message_queue) + enqueued < MaxMsgs
    /\ running \/ cleaners < MaxCleaners
    /\ LET formatted_data == ProcessorRecord(s, now - d, now)
           c0 == IF running THEN cache ELSE StartLoad(cache, now)
           dup == contains_update(c0, formatted_data)
       IN /\ cache' = process_bbo_update(cache, running, formatted_data, now)
          /\ running' = TRUE
          /\ cleaners' = IF running THEN cleaners ELSE cleaners + 1
          /\ processed_message_queue' = Append(processed_message_queue, formatted_data)
          /\ lastOp' = Op(IF dup THEN "duplicate"
                          ELSE IF Rejected(formatted_data) THEN "rejected" ELSE "admitted",
                          s, now - d, 0)
    /\ result' = <<>>
    /\ UNCHANGED <<stop_pc, pc, cur, seen, now, lock_owner, ppc, checked, epc>>
    /\ UNCHANGED <<dispOnly, client>>

\* MessageProcessor._dispatch_messages: one message taken from the queue and handed
\* to web_server.broadcast_message
DispatchMessages ==
    /\ processed_message_queue # <<>>
    /\ LET message == Head(processed_message_queue)
       IN message_queue' =
              Append(message_queue, [tuple |-> FALSE, event |-> "", data |-> message])
    /\ unfinished_tasks' = unfinished_tasks + 1
    /\ enqueued' = enqueued + 1
    /\ processed_message_queue' = Tail(processed_message_queue)
    /\ lastOp' = Op("dispatch", "", 0, 0)
    /\ result' = <<>>
    /\ UNCHANGED <<cache, running, cleaners, stop_pc, pc, cur, seen, now,
                   lock_owner, ppc, checked, epc, client>>
    /\ UNCHANGED <<is_running, last_message_time, throttled_message, latest_data,
                   dpc, batch, process_time, sends>>

InitForward == InitWith({FALSE})

NextForward ==
    \/ \E s \in Symbols, d \in ForwardDelays : ProcessBboUpdate(s, d)
    \/ DispatchMessages
    \/ CleanupIter
    \/ Tick

SpecForward == InitForward /\ [][NextForward]_vars

\* C23: a record is forwarded to the dispatcher's input queue only when it was
\* admitted, and then once: the records that reached message_queue or are on their
\* way to it are as many as the records inserted into the cache.
C23_ForwardedIffAdmitted ==
    Len(message_queue) + Len(processed_message_queue) = cache.insert_count

----------------------------------------------------------------------------
(* The cache lock and _persist_cache, step by step.  A thread holds          *)
(* BBOCache._lock from the start of add_update's insert block to its end,    *)
(* the call of _persist_cache included; _persist_cache itself takes no lock. *)
(* Its loop reads one series and writes one file per symbol, and any         *)
(* exception leaves the loop for the except block.                           *)

\* add_update's insert block up to the persistence test: insert and count
InsertCount(c, r) ==
    LET c1 == _insert_update(c, r.symbol, r.timestamp, r)
    IN [c1 EXCEPT !.insert_count = c1.insert_count + 1]

\* the persistence test of add_update's insert block
PersistDue(c, t) == c.persist_to_disk /\ t - c.last_persistence_time > persistence_interval

\* _persist_cache entered, at the head of `for symbol in self._updates.keys()`
EnterPersist(c) ==
    [stage |-> "loop", size |-> Cardinality(DOMAIN c.updates), todo |-> DOMAIN c.updates,
     symbol |-> "", recent_data |-> <<>>]

\* thread w returns from _persist_cache to its caller: add_update leaves the lock
\* block and returns, stop goes on to the join
ReturnFrom(w) ==
    /\ lock_owner' = IF lock_owner = w THEN "none" ELSE lock_owner
    /\ pc' = IF w \in Producers THEN [pc EXCEPT ![w] = "idle"] ELSE pc
    /\ cur' = IF w \in Producers THEN [cur EXCEPT ![w] = NoRecord] ELSE cur
    /\ seen' = IF w \in Producers THEN [seen EXCEPT ![w] = "no"] ELSE seen
    /\ stop_pc' = IF w = "stop" THEN "join" ELSE stop_pc

\* process_bbo_update's dedup check and add_update's checks, taken with the lock free
LockedAdmit(p, r) ==
    /\ lock_owner = "none"
    /\ AdmitCheck(p, r)

\* add_update's latency block, taken with the lock free
LockedLatency(p) ==
    /\ lock_owner = "none"
    /\ AddLatency(p)

\* add_update's insert block: the lock is taken, the record inserted and counted,
\* and _persist_cache entered with the lock held when persistence is due
LockedInsert(p) ==
    /\ pc[p] = "insert"
    /\ lock_owner = "none"
    /\ LET c2 == InsertCount(cache, cur[p])
           due == PersistDue(c2, now)
       IN /\ cache' = c2
          /\ lock_owner' = IF due THEN p ELSE "none"
          /\ ppc' = IF due THEN [ppc EXCEPT ![p] = EnterPersist(c2)] ELSE ppc
          /\ pc' = [pc EXCEPT ![p] = IF due THEN "persist" ELSE "idle"]
          /\ cur' = IF due THEN cur ELSE [cur EXCEPT ![p] = NoRecord]
          /\ seen' = IF due THEN seen ELSE [seen EXCEPT ![p] = "no"]
    /\ lastOp' = Op("add_update", cur[p].symbol, cur[p].timestamp, 0)
    /\ result' = <<>>
    /\ UNCHANGED <<running, cleaners, stop_pc, now, processed_message_queue, checked, epc>>
    /\ UNCHANGED <<dispOnly, client>>

\* CacheManager.stop: the flag is cleared and _persist_cache entered, no lock taken
StopBegin ==
    /\ running
    /\ stop_pc = "idle"
    /\ running' = FALSE
    /\ stop_pc' = IF cache.persist_to_disk THEN "flush" ELSE "join"
    /\ ppc' = IF cache.persist_to_disk THEN [ppc EXCEPT !["stop"] = EnterPersist(cache)]
              ELSE ppc
    /\ lastOp' = Op("stop", "", 0, 0)
    /\ result' = <<>>
    /\ UNCHANGED <<cache, cleaners, pc, cur, seen, now, processed_message_queue,
                   lock_owner, checked, epc>>
    /\ UNCHANGED <<dispOnly, client>>

\* _persist_cache, the head of the loop: the iterator raises when the dict changed
\* size; the loop ends and the time is stamped; or the next series is read
PersistNext(w) ==
    /\ ppc[w].stage = "loop"
    /\ LET changed == Cardinality(DOMAIN cache.updates) # ppc[w].size
           done == ppc[w].todo = {}
           symbol == CHOOSE x \in ppc[w].todo : TRUE
           recent_data == LastN(cache.updates[symbol], PersistTail)
       IN IF changed \/ done
          THEN /\ ppc' = [ppc EXCEPT ![w] = NotPersisting]
               /\ cache' = IF changed THEN cache
                           ELSE [cache EXCEPT !.last_persistence_time = now]
               /\ lastOp' = Op(IF changed THEN "persist_failed" ELSE "persisted", w, 0, 0)
               /\ ReturnFrom(w)
          ELSE /\ ppc' = [ppc EXCEPT ![w] =
                            [stage |-> IF recent_data = <<>> THEN "loop" ELSE "write",
                             size |-> ppc[w].size, todo |-> ppc[w].todo \ {symbol},
                             symbol |-> symbol, recent_data |-> recent_data]]
               /\ lastOp' = Op("persist_read", w, 0, 0)
               /\ UNCHANGED <<cache, lock_owner, pc, cur, seen, stop_pc>>
    /\ result' = <<>>
    /\ UNCHANGED <<running, cleaners, now, processed_message_queue, checked, epc>>
    /\ UNCHANGED <<dispOnly, client>>

\* _persist_cache: open() and json.dump() of the series read
PersistWrite(w) ==
    /\ ppc[w].stage = "write"
    /\ cache' = [cache EXCEPT !.files =
                    Put(cache.files, ppc[w].symbol, JsonDumpList(ppc[w].recent_data))]
    /\ ppc' = [ppc EXCEPT ![w].stage = "loop", ![w].recent_data = <<>>]
    /\ lastOp' = Op("persist_write", w, 0, 0)
    /\ result' = <<>>
    /\ UNCHANGED <<running, cleaners, stop_pc, pc, cur, seen, now,
                   processed_message_queue, lock_owner, checked, epc>>
    /\ UNCHANGED <<dispOnly, client>>

\* a failed write whose handler stamps the persistence time all the same
PersistFail_stamped(w) ==
    /\ ppc[w].stage = "write"
    /\ ppc' = [ppc EXCEPT ![w] = NotPersisting]
    /\ cache' = [cache EXCEPT !.last_persistence_time = now]
    /\ lastOp' = Op("persist_failed", w, 0, 0)
    /\ ReturnFrom(w)
    /\ result' = <<>>
    /\ UNCHANGED <<running, cleaners, now, processed_message_queue, checked, epc>>
    /\ UNCHANGED <<dispOnly, client>>

\* _persist_cache: open() or json.dump() raises; the except block logs and returns
PersistFail(w) ==
    /\ ppc[w].stage = "write"
    /\ ppc' = [ppc EXCEPT ![w] = NotPersisting]
    /\ cache' = cache
    /\ lastOp' = Op("persist_failed", w, 0, 0)
    /\ ReturnFrom(w)
    /\ result' = <<>>
    /\ UNCHANGED <<running, cleaners, now, processed_message_queue, checked, epc>>
    /\ UNCHANGED <<dispOnly, client>>

\* clear_old_data called by a cleanup thread, which waits for the lock
LockedCleanup ==
    /\ lock_owner = "none"
    /\ CleanupIter

\* the records admitted while the lock is observed
LockInputs == {TestShape("BTCUSDT", 1, 51), TestShape("ETHUSDT", 1, 60)}

InitLock == InitWith({TRUE})

NextLock ==
    \/ \E r \in LockInputs : LockedAdmit("p1", r)
    \/ LockedLatency("p1")
    \/ LockedInsert("p1")
    \/ StopBegin
    \/ StopJoin
    \/ \E w \in Persisters : PersistNext(w)
    \/ \E w \in Persisters : PersistWrite(w)
    \/ \E w \in Persisters : PersistFail(w)
    \/ LockedCleanup
    \/ CleanupExit

SpecLock == InitLock /\ [][NextLock]_vars

\* thread w reads a series inside _persist_cache
PersistReads(w) == ppc[w].stage = "loop" /\ ppc'[w].stage = "write"

\* thread w writes a file inside _persist_cache
PersistWrites(w) == ppc[w].stage = "write" /\ lastOp'.op = "persist_write"

\* _persist_cache of thread w fails
PersistFails(w) == ppc[w].stage # "idle" /\ lastOp'.op = "persist_failed" /\ lastOp'.sym = w

\* C24: every read of a series made by _persist_cache is made by a thread that holds
\* the cache lock, on the insert path and on the path of the final flush.
C24_PersistReadLocked ==
    [][\A w \in Persisters : PersistReads(w) => lock_owner = w]_vars

\* C25: a file is never written by a thread that holds the cache lock.
C25_WriteUnlocked ==
    [][\A w \in Persisters : PersistWrites(w) => lock_owner # w]_vars

\* C30: a failure of _persist_cache leaves every series, timestamp index, latency
\* tracker, the insert counter and the last-persistence time as they were; the insert
\* that triggered it returns with its record stored and the lock released.  The
\* time being unchanged, the test that triggered the failed attempt still holds at
\* the next insert.
C30_PersistFailureHarmless ==
    [][\A w \in Persisters : PersistFails(w) =>
          /\ cache'.updates = cache.updates
          /\ cache'.timestamps = cache.timestamps
          /\ cache'.latency_stats = cache.latency_stats
          /\ cache'.insert_count = cache.insert_count
          /\ cache'.last_persistence_time = cache.last_persistence_time
          /\ (w \in Producers =>
                /\ pc'[w] = "idle"
                /\ lock_owner' = "none"
                /\ Stored(cache', cur[w].symbol, cur[w].timestamp))]_vars

\* the write of an insert-triggered persistence has just failed, and the insert has
\* returned with its record in the cache
C30_Witness ==
    /\ lastOp.op = "persist_failed"
    /\ lastOp.sym = "p1"
    /\ pc["p1"] = "idle"
    /\ cache.insert_count >= 1
    /\ PersistDue(cache, now)
    /\ \E s \in DOMAIN cache.updates : cache.updates[s] # <<>>

----------------------------------------------------------------------------
(* The lifecycle manager's background loop and stop() *)

\* the step is one iteration of _cleanup_task that found the manager running
IterStep == lastOp'.op \in {"cleanup", "cleanup_idle"}

\* the insert counter starts at 0 and only grows: it can have crossed a multiple of
\* CleanupEvery only when it has reached CleanupEvery
CanHaveCrossed(c) == c.insert_count >= CleanupEvery

\* C26: an iteration of the background loop calls clear_old_data with the 24-hour
\* window when the time since the last persistence exceeds the cleanup interval, and
\* calls it only then or when the insert counter has crossed a multiple of 10,000.
C26_CleanupTrigger ==
    [][IterStep =>
          /\ (now - cache.last_persistence_time > CleanupIntervalMs
                => lastOp'.op = "cleanup" /\ lastOp'.a = now - RetentionMs)
          /\ (lastOp'.op = "cleanup"
                => \/ CanHaveCrossed(cache)
                   \/ now - cache.last_persistence_time > CleanupIntervalMs)]_vars

\* C27: stop() flushes only after its wait for the background loop: once the final
\* flush of a persisting manager has been made, the wait is no longer pending.
C27_FlushAfterWait ==
    (lastOp.op = "stop" /\ cache.persist_to_disk) => stop_pc # "join"

(* The background loop step by step: the flag test that opens an iteration   *)
(* and the rest of the iteration are separate steps of the cleanup thread,   *)
(* and stop() may clear the flag between them.                               *)

\* an iteration whose flag test passes whatever the flag
CleanupCheck_blind ==
    /\ cleaners > checked
    /\ checked' = checked + 1
    /\ lastOp' = Op("cleanup_check", "", 0, 0)
    /\ result' = <<>>
    /\ UNCHANGED <<cache, running, cleaners, stop_pc, pc, cur, seen, now,
                   processed_message_queue, lock_owner, ppc, epc>>
    /\ UNCHANGED <<dispOnly, client>>

\* _cleanup_task: `while self.running`, the sleep and `if not self.running: break`
\* find the flag set
CleanupCheck ==
    /\ cleaners > checked
    /\ running
    /\ checked' = checked + 1
    /\ lastOp' = Op("cleanup_check", "", 0, 0)
    /\ result' = <<>>
    /\ UNCHANGED <<cache, running, cleaners, stop_pc, pc, cur, seen, now,
                   processed_message_queue, lock_owner, ppc, epc>>
    /\ UNCHANGED <<dispOnly, client>>

\* _cleanup_task: the trigger test and clear_old_data of an iteration past its flag
\* test
CleanupRun ==
    /\ checked > 0
    /\ LET due == (cache.insert_count % CleanupEvery = 0)
                    \/ (now - cache.last_persistence_time > CleanupIntervalMs)
       IN /\ cache' = IF due THEN clear_old_data(cache, now, RetentionMs) ELSE cache
          /\ lastOp' = Op(IF due THEN "cleanup" ELSE "cleanup_idle", "", now - RetentionMs, 0)
    /\ checked' = checked - 1
    /\ result' = <<>>
    /\ UNCHANGED <<running, cleaners, stop_pc, pc, cur, seen, now,
                   processed_message_queue, lock_owner, ppc, epc>>
    /\ UNCHANGED <<dispOnly, client>>

\* an exception of the iteration that leaves the loop and ends the thread
CleanupRaise_escapes(done) ==
    /\ checked > 0
    /\ done \subseteq DOMAIN cache.updates
    /\ cache' = ClearSymbols(cache, done, now - RetentionMs)
    /\ checked' = checked - 1
    /\ cleaners' = cleaners - 1
    /\ lastOp' = Op("cleanup_failed", "", now - RetentionMs, 0)
    /\ result' = <<>>
    /\ UNCHANGED <<running, stop_pc, pc, cur, seen, now,
                   processed_message_queue, lock_owner, ppc, epc>>
    /\ UNCHANGED <<dispOnly, client>>

\* _cleanup_task: the iteration raises after clear_old_data has treated the symbols
\* of `done`; the except block inside the loop logs and the loop goes on
CleanupRaise(done) ==
    /\ checked > 0
    /\ done \subseteq DOMAIN cache.updates
    /\ cache' = ClearSymbols(cache, done, now - RetentionMs)
    /\ checked' = checked - 1
    /\ lastOp' = Op("cleanup_failed", "", now - RetentionMs, 0)
    /\ result' = <<>>
    /\ UNCHANGED <<running, cleaners, stop_pc, pc, cur, seen, now,
                   processed_message_queue, lock_owner, ppc, epc>>
    /\ UNCHANGED <<dispOnly, client>>

\* _cleanup_task: a thread at its flag test finds the flag cleared and returns
CleanupLeave ==
    /\ cleaners > checked
    /\ CleanupExit

\* the records admitted while the background loop is observed
CleanInputs == {TestShape("BTCUSDT", 1, 51), TestShape("ETHUSDT", 1, 60)}

InitClean == InitWith({FALSE})

NextClean ==
    \/ Start
    \/ StopFlush
    \/ StopJoin
    \/ CleanupCheck
    \/ CleanupRun
    \/ \E done \in SUBSET Symbols : CleanupRaise(done)
    \/ CleanupLeave
    \/ \E r \in CleanInputs : AdmitCheck("p1", r)
    \/ AddLatency("p1")
    \/ AddInsert("p1")

SpecClean == InitClean /\ [][NextClean]_vars

\* the cleanup threads are scheduled: one past its flag test finishes its iteration,
\* one at its flag test with the flag cleared returns
FairSpecClean ==
    SpecClean /\ WF_vars(CleanupRun) /\ WF_vars(CleanupLeave)

\* a cleanup thread starts an eviction
EvictionStarts == checked' < checked /\ lastOp'.op = "cleanup"

\* C28, as stated: after stop() the cleanup threads terminate, and no eviction starts
\* once the running flag has been cleared.
C28_NoEvictionAfterStop ==
    /\ [](~running => <>(cleaners = 0 \/ running))
    /\ [][EvictionStarts => running]_vars

\* C28, amended: after stop() with no later start the cleanup threads terminate, and
\* no iteration passes its flag test once the flag has been cleared; the one
\* iteration a thread may still finish passed its test before.
C28_Cancellable ==
    /\ [](~running => <>(cleaners = 0 \/ running))
    /\ [][checked' > checked => running]_vars

\* the last cleanup thread has returned after a stop, some record being in the cache
C28_Witness ==
    /\ lastOp.op = "cleanup_exit"
    /\ ~running
    /\ cleaners = 0
    /\ cache.insert_count >= 1

\* C29: an exception inside an iteration of the background loop ends no thread and
\* the loop goes on to its next iteration: a cleanup thread terminates only when the
\* running flag is cleared.
C29_FailureSurvived ==
    /\ [][lastOp'.op = "cleanup_failed" => cleaners' = cleaners]_vars
    /\ [][cleaners' < cleaners => ~running]_vars
    /\ []((lastOp.op = "cleanup_failed" /\ running) => ENABLED CleanupCheck)

\* an iteration has just failed half-way through the eviction, the manager running
C29_Witness ==
    /\ lastOp.op = "cleanup_failed"
    /\ running
    /\ cleaners >= 1
    /\ \E s \in DOMAIN cache.updates : cache.updates[s] = <<>>
    /\ \E s \in DOMAIN cache.updates : cache.updates[s] # <<>>

----------------------------------------------------------------------------
(* Persist and load: the cache is persisted and a new BBOCache on the same   *)
(* cache_dir loads the files, as test_cache_basic does.                      *)

\* BBOCache(persist_to_disk=True, cache_dir=...) on the directory c persisted to,
\* after its load_from_disk()
LoadedCopy(c, t) ==
    load_from_disk([NewCache(TRUE) EXCEPT !.files = _persist_cache(c, t).files], t)

\* _persist_cache() on the cache, then get_updates(symbol) of every symbol of the
\* loaded copy
RoundTrip ==
    /\ \A p \in Producers : pc[p] = "idle"
    /\ cache' = _persist_cache(cache, now)
    /\ result' = [s \in get_symbol_list(LoadedCopy(cache, now)) |->
                     get_updates(LoadedCopy(cache, now), s, NoneVal, NoneVal, NoneVal)]
    /\ lastOp' = Op("round_trip", "", 0, 0)
    /\ UNCHANGED <<running, cleaners, stop_pc, pc, cur, seen, now>>
    /\ UNCHANGED dispVars

InitRound == InitWith({TRUE})

NextRound ==
    \/ \E r \in LifeInputs : AdmitCheck("p1", r)
    \/ AddLatency("p1")
    \/ AddInsert("p1")
    \/ CleanupIter
    \/ RoundTrip
    \/ \E d \in BigSteps : Jump(d)

SpecRound == InitRound /\ [][NextRound]_vars

\* C31: after _persist_cache, a new cache that loads the directory has the symbol
\* list of the original and, for every symbol, the original's most recent
\* min(n, 10,000) records in the same order.
C31_RoundTrip ==
    lastOp.op = "round_trip" =>
        /\ DOMAIN result = get_symbol_list(cache)
        /\ \A s \in get_symbol_list(cache) :
               s \in DOMAIN result => result[s] = LastN(cache.updates[s], PersistTail)

----------------------------------------------------------------------------
(* The insert counter *)

\* well-formed records, one of them offered again and again, and a malformed one
CountInputs ==
    {TestShape("BTCUSDT", 1, 51), TestShape("BTCUSDT", 2, 52), MissingFieldRecord}

InitCount == InitWith({TRUE})

NextCount ==
    \/ \E r \in CountInputs : AdmitCheck("p1", r)
    \/ AddLatency("p1")
    \/ AddInsert("p1")
    \/ \E range \in QueryRanges : Query("BTCUSDT", range)
    \/ ClearOldData(RetentionMs)
    \/ StopFlush
    \/ StopJoin
    \/ CleanupExit

SpecCount == InitCount /\ [][NextCount]_vars

\* the records load_from_disk replays when the step starts the manager
Replayed ==
    IF ~running /\ running' /\ cache.persist_to_disk
    THEN SumLen(cache.files, DOMAIN cache.files) ELSE 0

\* C32: the insert counter never decreases and grows by one for each record
\* inserted into a series, by add_update's insert block or by the replay of a
\* persisted file; a rejected record, a duplicate, a query, clear_old_data and
\* persistence leave it unchanged.
C32_CounterCounts ==
    [][cache'.insert_count =
          cache.insert_count + Replayed + (IF lastOp'.op = "add_update" THEN 1 ELSE 0)]_vars

\* a malformed record has just been rejected by a running manager whose cache has
\* counted more inserts than it holds records
C32_Witness ==
    /\ lastOp.op = "rejected"
    /\ cache.insert_count >= 2
    /\ Stored_count(cache) < cache.insert_count

----------------------------------------------------------------------------
(* clear_old_data step by step, against add_update.  The evicting thread     *)
(* holds the lock from the head of its loop to the end; for each symbol it   *)
(* first rebinds the series and then trims the timestamp index and the       *)
(* latency tracker.  A producer's dedup check, latency block and insert      *)
(* block each wait for the lock.                                             *)

\* a clear_old_data that enters its loop without the lock
EvictAcquire_unlocked(max_age_ms) ==
    /\ epc.stage = "idle"
    /\ lock_owner = "none"
    /\ epc' = [stage |-> "loop", todo |-> DOMAIN cache.updates, symbol |-> "",
               cutoff_time |-> now - max_age_ms]
    /\ lastOp' = Op("evict_begin", "", now - max_age_ms, 0)
    /\ result' = <<>>
    /\ UNCHANGED <<cache, running, cleaners, stop_pc, pc, cur, seen, now,
                   processed_message_queue, lock_owner, ppc, checked>>
    /\ UNCHANGED <<dispOnly, client>>

\* clear_old_data: the cutoff is computed and the lock taken
EvictAcquire(max_age_ms) ==
    /\ epc.stage = "idle"
    /\ lock_owner = "none"
    /\ lock_owner' = "evict"
    /\ epc' = [stage |-> "loop", todo |-> DOMAIN cache.updates, symbol |-> "",
               cutoff_time |-> now - max_age_ms]
    /\ lastOp' = Op("evict_begin", "", now - max_age_ms, 0)
    /\ result' = <<>>
    /\ UNCHANGED <<cache, running, cleaners, stop_pc, pc, cur, seen, now,
                   processed_message_queue, ppc, checked>>
    /\ UNCHANGED <<dispOnly, client>>

\* clear_old_data, the head of the loop: the loop ends and the lock is released; a
\* symbol with nothing to evict is passed over; or the series is rebound to its tail
EvictNext ==
    /\ epc.stage = "loop"
    /\ IF epc.todo = {}
       THEN /\ epc' = NotEvicting
            /\ lock_owner' = IF lock_owner = "evict" THEN "none" ELSE lock_owner
            /\ cache' = cache
            /\ lastOp' = Op("clear_old_data", "", epc.cutoff_time, 0)
       ELSE LET symbol == CHOOSE x \in epc.todo : TRUE
                ts == GetD(cache.timestamps, symbol)
                idx == bisect_left(ts, epc.cutoff_time)
            IN /\ epc' = [epc EXCEPT !.todo = epc.todo \ {symbol},
                                     !.symbol = symbol,
                                     !.stage = IF ts = <<>> \/ idx = 0 THEN "loop" ELSE "index"]
               /\ cache' = IF ts = <<>> \/ idx = 0 THEN cache
                           ELSE [cache EXCEPT !.updates =
                                    Put(cache.updates, symbol,
                                        DropFirst(GetD(cache.updates, symbol), idx))]
               /\ lastOp' = Op("evict_series", symbol, epc.cutoff_time, 0)
               /\ UNCHANGED lock_owner
    /\ result' = <<>>
    /\ UNCHANGED <<running, cleaners, stop_pc, pc, cur, seen, now,
                   processed_message_queue, ppc, checked>>
    /\ UNCHANGED <<dispOnly, client>>

\* clear_old_data: the timestamp index is trimmed and the latency samples filtered
EvictIndex ==
    /\ epc.stage = "index"
    /\ LET symbol == epc.symbol
           ts == GetD(cache.timestamps, symbol)
           idx == bisect_left(ts, epc.cutoff_time)
       IN cache' = [cache EXCEPT
               !.timestamps = Put(cache.timestamps, symbol, DropFirst(ts, idx)),
               !.latency_stats =
                   IF symbol \in DOMAIN cache.latency_stats
                   THEN Put(cache.latency_stats, symbol,
                            KeepFrom(cache.latency_stats[symbol], epc.cutoff_time))
                   ELSE cache.latency_stats]
    /\ epc' = [epc EXCEPT !.stage = "loop"]
    /\ lastOp' = Op("evict_index", epc.symbol, epc.cutoff_time, 0)
    /\ result' = <<>>
    /\ UNCHANGED <<running, cleaners, stop_pc, pc, cur, seen, now,
                   processed_message_queue, lock_owner, ppc, checked>>
    /\ UNCHANGED <<dispOnly, client>>

\* get_latency_stats called by another thread, which waits for the lock
LockedStats(s) ==
    /\ lock_owner = "none"
    /\ LatencyStats(s, <<NoneVal, NoneVal>>)

\* records that arrive in and out of order, one of them older than the cutoff
EvictInputs ==
    {TestShape("BTCUSDT", 1, 51), TestShape("BTCUSDT", 3, 53), TestShape("BTCUSDT", 2, 52),
     TestShape("ETHUSDT", 1, 60)}

InitEvict == InitWith({FALSE})

NextEvict ==
    \/ \E r \in EvictInputs : LockedAdmit("p1", r)
    \/ LockedLatency("p1")
    \/ LockedInsert("p1")
    \/ EvictAcquire(RetentionMs)
    \/ EvictNext
    \/ EvictIndex
    \/ \E s \in Symbols : LockedStats(s)

SpecEvict == InitEvict /\ [][NextEvict]_vars

\* for every symbol the timestamp index is the list of the records' timestamps
Aligned(c) ==
    \A s \in (DOMAIN c.updates) \cup (DOMAIN c.timestamps) :
        TsOf(GetD(c.updates, s)) = GetD(c.timestamps, s)

\* a producer takes a step of process_bbo_update: the dedup check, the latency block
\* or the insert block
ProducerStep == \E p \in Producers : pc'[p] # pc[p] \/ lastOp'.op \in {"duplicate", "rejected"}

\* C33: eviction and insert exclude each other: a producer's dedup check and insert
\* run only while no eviction is under way and see series that match their index,
\* an eviction begins only on such series, and the record of an insert that
\* completes is in its series.
C33_EvictInsertExclusive ==
    /\ [][ProducerStep => epc.stage = "idle" /\ Aligned(cache)]_vars
    /\ [][(epc.stage = "idle" /\ epc'.stage # "idle") => Aligned(cache)]_vars
    /\ [][lastOp'.op = "add_update" => Stored(cache', lastOp'.sym, lastOp'.a)]_vars

\* an insert has completed after an eviction removed the record inserted before it
C33_Witness ==
    /\ lastOp.op = "add_update"
    /\ epc.stage = "idle"
    /\ cache.insert_count = 2
    /\ Stored_count(cache) = 1

\* another thread starts clear_old_data or get_latency_stats
ObserverStep ==
    \/ epc.stage = "idle" /\ epc'.stage # "idle"
    \/ lastOp'.op = "get_latency_stats"

\* C37: the latency append and the series insert of add_update are one atomic step
\* for other threads: no clear_old_data or get_latency_stats of another thread runs
\* while a tick's latency sample is stored and the tick is not yet in its series.
C37_LatencyInsertAtomic ==
    [][ObserverStep =>
          \A p \in Producers : ~(pc[p] = "insert" /\ HasLatency(cur[p]))]_vars

\* C38: whenever the cache lock is free, the series and the timestamp index of every
\* symbol have the same length and timestamps[i] is the timestamp of the i-th record.
C38_IndexAligned ==
    lock_owner = "none" => Aligned(cache)

\* clear_old_data has returned, having evicted from a cache filled by appends and a
\* sorted insert
C38_Witness ==
    /\ lastOp.op = "clear_old_data"
    /\ lock_owner = "none"
    /\ cache.insert_count = 3
    /\ Stored_count(cache) = 1
    /\ Stored(cache, "BTCUSDT", 3)

----------------------------------------------------------------------------
(* The dispatch loop's cycles *)

RECURSIVE HandledCount(_, _, _, _, _)
\* how many messages of msgs the for loop reaches before it ends or an exception
\* leaves it; the message whose handling raises is counted
HandledCount(st, msgs, n, pt, current_time) ==
    IF msgs = <<>> \/ st.raised THEN 0
    ELSE 1 + HandledCount(
                 HandleMessage(st, Head(msgs), n, pt, current_time,
                               current_time - last_message_time),
                 Tail(msgs), n, pt, current_time)

\* the messages of the current batch that the cycle handles
HandledOfBatch ==
    HandledCount([latest_data |-> latest_data, last_message_time |-> last_message_time,
                  throttled_message |-> throttled_message,
                  unfinished_tasks |-> unfinished_tasks, sends |-> sends, raised |-> FALSE],
                 batch, Len(batch), process_time, now)

\* C34: a cycle of the dispatch loop takes at most batch_size records from the head
\* of the queue, in order, and none from an empty queue, and every record it took is
\* handled in that cycle.
C34_CycleDrainsAndHandles ==
    /\ [][(dpc = "get" /\ dpc' \in {"batch", "loop"}) =>
             /\ Len(batch') <= batch_size
             /\ batch' \o message_queue' = message_queue
             /\ (message_queue = <<>> => batch' = <<>>)]_vars
    /\ [][BatchHandled => HandledOfBatch = Len(batch)]_vars

\* C35: at most one cleanup thread of the manager is alive.
C35_OneCleanupThread ==
    cleaners <= 1

\* C36: the payloads sent to the sink are in enqueue order, none of them twice: the
\* n-th record enqueued carries the event time EventTime(n), so the event times of
\* the sends increase strictly.
C36_SendsInEnqueueOrder ==
    \A i \in 1..Len(sends) : \A j \in (i + 1)..Len(sends) :
        sends[i].payload["timestamp"] < sends[j].payload["timestamp"]

(***************************************************************************)
(* The stream client.  BinanceWebSocketClient keeps one socket open and    *)
(* reconnects with a growing pause.  Each step below is one call of run or *)
(* receive_message, or one iteration of the loop of handle_messages; the   *)
(* network decides whether a connect succeeds and what recv delivers.      *)
(***************************************************************************)

\* BinanceWebSocketClient.connect: a success installs the socket and resets the
\* retry state, a failure only clears connection_active
connect(c, ok) ==
    IF ok
    THEN [c EXCEPT !.websocket = TRUE, !.connection_active = TRUE,
                   !.retry_count = 0, !.backoff_time = INITIAL_BACKOFF,
                   !.connects = @ + 1]
    ELSE [c EXCEPT !.connection_active = FALSE, !.connects = @ + 1]

\* BinanceWebSocketClient.handle_reconnection
handle_reconnection(c, ok) ==
    IF c.retry_count >= c.max_retries
    THEN c
    ELSE LET retry_count == c.retry_count + 1
             doubled == c.backoff_time * 2
             backoff == IF retry_count > EXTENDED_BACKOFF_THRESHOLD
                        THEN (IF doubled > 30 THEN doubled ELSE 30)
                        ELSE doubled
             slept == [c EXCEPT !.retry_count = retry_count, !.backoff_time = backoff]
             closed == IF slept.websocket
                       THEN [slept EXCEPT !.websocket = FALSE, !.connection_active = FALSE]
                       ELSE slept
         IN connect(closed, ok)

\* what recv delivers: a message, a timeout, or a closed connection (any other
\* exception takes the same branch as a closed connection)
RecvOutcomes == {"message", "timeout", "closed"}

\* the try block around recv, shared by receive_message and handle_messages;
\* only the loop of handle_messages has a break to take
Recv(c, outcome, ok, in_loop) ==
    CASE outcome = "message" -> c
      [] outcome = "timeout" ->
            IF c.auto_reconnect THEN handle_reconnection(c, ok) ELSE c
      [] OTHER ->
            LET down == [c EXCEPT !.connection_active = FALSE]
            IN IF c.auto_reconnect THEN handle_reconnection(down, ok)
               ELSE IF in_loop THEN [down EXCEPT !.hpc = "done"]
               ELSE down

\* receive_message, and one iteration of the loop of handle_messages: connect
\* first when there is no live socket, and give up the iteration when that fails
Receive(c, ok1, ok2, outcome, in_loop) ==
    IF ~c.websocket \/ ~c.connection_active
    THEN IF ok1
         THEN Recv(connect(c, TRUE), outcome, ok2, in_loop)
         ELSE handle_reconnection(connect(c, FALSE), ok2)
    ELSE Recv(c, outcome, ok2, in_loop)

ClientStep(op, c) ==
    /\ c.connects <= MaxConnects
    /\ client' = c
    /\ lastOp' = Op(op, "", 0, 0)
    /\ UNCHANGED <<cache, running, cleaners, stop_pc, pc, cur, seen, now, result,
                   processed_message_queue, lock_owner, ppc, checked, epc>>
    /\ UNCHANGED dispOnly

\* BinanceWebSocketClient.run up to the call of handle_messages
Run(ok) ==
    /\ client.hpc = "none"
    /\ ClientStep("run", [connect(client, ok)
                              EXCEPT !.hpc = IF ok THEN "loop" ELSE "done"])

\* one iteration of the loop of BinanceWebSocketClient.handle_messages
HandleMessages(ok1, ok2, outcome) ==
    /\ client.hpc = "loop"
    /\ ClientStep("handle_messages",
                  Receive(client, ok1, ok2, outcome, TRUE))

\* BinanceWebSocketClient.receive_message, called while no loop is running
ReceiveMessage(ok1, ok2, outcome) ==
    /\ client.hpc \in {"none", "done"}
    /\ ClientStep("receive_message",
                  Receive(client, ok1, ok2, outcome, FALSE))

InitClient == InitBoth({NewCache(FALSE)}, {NewClient(a) : a \in BOOLEAN})

NextClient ==
    \/ \E ok \in BOOLEAN : Run(ok)
    \/ \E ok1 \in BOOLEAN, ok2 \in BOOLEAN, outcome \in RecvOutcomes :
           HandleMessages(ok1, ok2, outcome)
    \/ \E ok1 \in BOOLEAN, ok2 \in BOOLEAN, outcome \in RecvOutcomes :
           ReceiveMessage(ok1, ok2, outcome)

SpecClient == InitClient /\ [][NextClient]_vars

\* C39: a receive_message call or a handle_messages iteration that begins with
\* retry_count at max_retries or above makes no connect call, and retry_count
\* never exceeds max_retries.
C39_NoConnectAfterLimit ==
    /\ [][(/\ client.retry_count >= client.max_retries
          /\ lastOp'.op \in {"handle_messages", "receive_message"})
             => client'.connects = client.connects]_vars
    /\ [](client.retry_count <= client.max_retries)

====
